---------------------------- MODULE Spec2Model ----------------------------
(***************************************************************************)
(* Model of theorydd: theory decision diagrams (T-BDD, T-SDD), their       *)
(* abstraction-only siblings, the lemma pipeline that feeds them and the   *)
(* atom partitioner.                                                       *)
(*                                                                         *)
(* Formulas are kept as what the pipeline reads of them: the set of atoms  *)
(* that occur in them and the set of truth assignments to those atoms that *)
(* satisfy them.  A diagram node is the Boolean function it denotes, a set *)
(* of assignments over the identifiers declared in the engine manager.     *)
(* The background theory is the theory of one real variable x with atoms   *)
(* (x < c), a Boolean symbol b1 being outside the theory.                  *)
(***************************************************************************)
EXTENDS Integers, Sequences, FiniteSets, TLC

\* ------------------------------------------------------------------ bounds
\* thresholds c of the theory atoms (x < c) are 1..MaxThreshold
MaxThreshold == 2
\* a formula phi mentions at most MaxPhiAtoms atoms
MaxPhiAtoms == 2
\* an All-SMT run returns at most MaxLemmas theory lemmas
MaxLemmas == 2
\* number of condition calls on one diagram
MaxConditions == 1
MaxPartAtoms == 3
MaxSerial == 720
MaxResets == 1
MaxCompilations == 2
MaxRandom == 2
MaxSolverRuns == 2

\* ---------------------------------------------------------------- helpers
Range(s) == {s[i] : i \in DOMAIN s}

RECURSIVE Pow2(_)
Pow2(n) == IF n = 0 THEN 1 ELSE 2 * Pow2(n - 1)

Reverse(s) == [i \in 1..Len(s) |-> s[Len(s) + 1 - i]]

\* --------------------------------------------------- constants.py SAT/UNSAT
SAT == TRUE
UNSAT == FALSE
\* an Optional value is a set of at most one element
None == {}

\* ------------------------------------------------------------------- atoms
\* (x < c), its unnormalized spelling (c > x), and the Boolean symbol b1
Lt(c) == [rel |-> "lt", c |-> c]
Gt(c) == [rel |-> "gt", c |-> c]
B1 == [rel |-> "b", c |-> 0]

LtAtoms == {Lt(c) : c \in 1..MaxThreshold}
\* the atoms a caller can write
RawAtoms == LtAtoms \cup {Gt(1), B1}
\* the atoms after normalization
NormAtoms == LtAtoms \cup {B1}

\* position of an atom in the iteration order of an atom set
AtomRank(a) == IF a.rel = "b" THEN 0 ELSE 2 * a.c + (IF a.rel = "gt" THEN 1 ELSE 0)

RECURSIVE SortAtoms(_)
\* the atoms of S listed by increasing rank
SortAtoms(S) ==
    IF S = {} THEN <<>>
    ELSE LET x == CHOOSE y \in S : \A z \in S : AtomRank(y) <= AtomRank(z)
         IN <<x>> \o SortAtoms(S \ {x})

\* the converter round trip convert/back on one atom: (c > x) becomes (x < c)
ConvertBack(a) == IF a.rel = "gt" THEN Lt(a.c) ELSE a

\* ---------------------------------------------------------------- formulas
\* A formula: the atoms occurring in it and its satisfying assignments
\* (an assignment is the set of atoms it makes true).
Formula(S) == [atoms : {S}, models : SUBSET (SUBSET S)]

top == [atoms |-> {}, models |-> {{}}]
bottom == [atoms |-> {}, models |-> {}]

\* lift the models of f to a larger atom set S
Lift(f, S) == {m \in SUBSET S : (m \cap f.atoms) \in f.models}

And2(f, g) == [atoms |-> f.atoms \cup g.atoms,
               models |-> Lift(f, f.atoms \cup g.atoms) \cap Lift(g, f.atoms \cup g.atoms)]

RECURSIVE AndSeq(_, _)
AndSeq(f, fs) == IF fs = <<>> THEN f ELSE AndSeq(And2(f, Head(fs)), Tail(fs))

\* formula.big_and
big_and(nodes) ==
    IF Len(nodes) = 0 THEN top
    ELSE IF Len(nodes) = 1 THEN nodes[1]
    ELSE AndSeq(nodes[1], Tail(nodes))

\* formula.get_phi_and_lemmas
get_phi_and_lemmas(phi, tlemmas) ==
    IF Len(tlemmas) = 0 THEN phi ELSE AndSeq(phi, tlemmas)

\* formula.get_normalized: every atom goes through the converter; atoms with
\* the same normal form become one atom
get_normalized(phi) ==
    LET S == {ConvertBack(a) : a \in phi.atoms}
    IN [atoms |-> S,
        models |-> {m \in SUBSET S : {a \in phi.atoms : ConvertBack(a) \in m} \in phi.models}]

\* formula.get_normalized applied to one atom
get_normalized_atom(a) == ConvertBack(a)

\* formula.get_atoms: list(phi.get_atoms()), a frozenset listed in an order
\* that is fixed for one run (seed) but not specified
get_atoms(phi, seed) ==
    IF seed = "asc" THEN SortAtoms(phi.atoms)
    ELSE Reverse(SortAtoms(phi.atoms))

Seeds == {"asc", "desc"}

\* ---------------------------------------------------- the formulas of a run
\* the formulas over S: cubes and clauses over a subset of S, and the two
\* parity functions of S (for two atoms these are all sixteen functions)
Cube(S, R, P) == {m \in SUBSET S : m \cap R = P}
Family(S) ==
    {Cube(S, R, P) : R \in SUBSET S, P \in SUBSET S}
    \cup {(SUBSET S) \ Cube(S, R, P) : R \in SUBSET S, P \in SUBSET S}
    \cup {{m \in SUBSET S : Cardinality(m) % 2 = k} : k \in {0, 1}}

PhiAtomSets == {S \in SUBSET RawAtoms : Cardinality(S) \in 1..MaxPhiAtoms}
PhiPool == UNION {{[atoms |-> S, models |-> M] : M \in Family(S)} : S \in PhiAtomSets}

\* the formulas whose diagrams are followed through condition, save and load:
\* those over one atom, and those over the two atoms (x < 1), (x < 2)
LifePool == {phi \in PhiPool : Cardinality(phi.atoms) = 1 \/ phi.atoms = {Lt(1), Lt(2)}}

\* -------------------------------------------------------------- the theory
IsTheoryAtom(a) == a.rel \in {"lt", "gt"}

\* a total assignment m to the atoms S has a model in the theory of x
TConsistent(m, S) ==
    \A a \in S, b \in S :
        (IsTheoryAtom(a) /\ IsTheoryAtom(b) /\ a.c <= b.c /\ a \in m) => b \in m

\* the total truth assignments All-SMT finds for phi
TModels(phi) == {m \in phi.models : TConsistent(m, phi.atoms)}

\* the theory lemma (x < i) -> (x < j), i < j, as the clause ~(x<i) | (x<j)
Impl(i, j) == [atoms |-> {Lt(i), Lt(j)},
               models |-> (SUBSET {Lt(i), Lt(j)}) \ {{Lt(i)}}]
LemmaPool == {Impl(p[1], p[2]) : p \in {q \in (1..MaxThreshold) \X (1..MaxThreshold) : q[1] < q[2]}}

LemmaKey(l) ==
    LET p == CHOOSE q \in (1..MaxThreshold) \X (1..MaxThreshold) : q[1] < q[2] /\ l = Impl(q[1], q[2])
    IN p[1] * (MaxThreshold + 1) + p[2]

RECURSIVE SortLemmas(_)
SortLemmas(S) ==
    IF S = {} THEN <<>>
    ELSE LET x == CHOOSE y \in S : \A z \in S : LemmaKey(y) <= LemmaKey(z)
         IN <<x>> \o SortLemmas(S \ {x})

\* the lemma lists an All-SMT run can store
LemmaLists == {SortLemmas(S) : S \in {T \in SUBSET LemmaPool : Cardinality(T) <= MaxLemmas}}

\* the lemmas leave phi no theory-inconsistent total assignment
RulesOutInconsistent(phi, lemmas) ==
    LET f == get_phi_and_lemmas(phi, lemmas)
    IN \A m \in f.models : TConsistent(m \cap phi.atoms, phi.atoms)

\* ------------------------------------------- util/_string_generator.py
Letters == <<"a", "b", "c", "d", "e", "f", "g", "h", "i", "j", "k", "l", "m",
             "n", "o", "p", "q", "r", "s", "t", "u", "v", "w", "x", "y", "z">>

_char_from_remainder(remainder) == Letters[remainder + 1]

\* a loop that divides without stepping back by one: plain base 26
RECURSIVE StringLoopPlain(_, _)
StringLoopPlain(result, built) ==
    IF result > 0
    THEN StringLoopPlain(result \div 26, _char_from_remainder(result % 26) \o built)
    ELSE built

RECURSIVE StringLoop(_, _)
\* the while loop of next_string; the characters are appended and the array
\* is reversed at the end, so each new character goes in front
StringLoop(result, built) ==
    IF result > 0
    THEN StringLoop((result - 1) \div 26, _char_from_remainder((result - 1) % 26) \o built)
    ELSE built

\* SequentialStringGenerator.next_string when _string_serial = serial
next_string(serial) == StringLoop(serial \div 26, _char_from_remainder(serial % 26))

\* ------------------------------------------------- the diagram engines
\* A node of a manager whose declared variables are V is a set of subsets
\* of V: the assignments (sets of true variables) of its function.
NodeTrue(V) == SUBSET V
NodeFalse == {}
NodeVar(V, v) == {m \in SUBSET V : v \in m}
NodeNot(V, u) == (SUBSET V) \ u
NodeAnd(u, w) == u \cap w

\* existential quantification of the variables Q
NodeExists(V, u, Q) == {m \in SUBSET V : \E m2 \in u : m2 \ Q = m \ Q}

\* the variables the function depends on
Support(V, u) == {v \in V : \E m \in u : (m \ {v}) \notin u \/ (m \cup {v}) \notin u}

\* BDDWalker.walk / SDDWalker.walk: atoms become their variables, the
\* connectives become the engine's operations
walk(V, mapping, f) == {m \in SUBSET V : {a \in f.atoms : mapping[a] \in m} \in f.models}

\* cudd: the number of nodes of the reduced ordered BDD with complement
\* edges of u, the terminal included (Cudd_DagSize), for the variable levels
BddCofactor(u, levels, k, A) ==
    LET Prefix == {levels[i] : i \in 1..(k - 1)}
        Rest == {levels[i] : i \in k..Len(levels)}
    IN {m \cap Rest : m \in {x \in u : x \cap Prefix = A}}

BddNodesAt(u, levels, k) ==
    LET Prefix == {levels[i] : i \in 1..(k - 1)}
        Rest == {levels[i] : i \in k..Len(levels)}
        Cofs == {BddCofactor(u, levels, k, A) : A \in SUBSET Prefix}
        Live == {g \in Cofs : levels[k] \in Support(Rest, g)}
    IN {IF Rest \in g THEN g ELSE (SUBSET Rest) \ g : g \in Live}

RECURSIVE BddInner(_, _, _)
BddInner(u, levels, k) ==
    IF k > Len(levels) THEN 0
    ELSE Cardinality(BddNodesAt(u, levels, k)) + BddInner(u, levels, k + 1)

BddLen(u, levels) == 1 + BddInner(u, levels, 1)

\* cudd Function.count(nvars): the engine refuses nvars below the support
\* size, otherwise the satisfying fraction times 2^nvars
CuddCount(V, u, nvars) ==
    IF nvars < Cardinality(Support(V, u))
    THEN [exc |-> "AssertionError", num |-> 0, den |-> 1]
    ELSE [exc |-> "none", num |-> (Cardinality(u) * Pow2(nvars)) \div Pow2(Cardinality(V)), den |-> 1]

\* a quotient as a reduced fraction (the denominators are powers of two)
RECURSIVE Reduce(_, _)
Reduce(num, den) ==
    IF den > 1 /\ num % 2 = 0 THEN Reduce(num \div 2, den \div 2)
    ELSE [exc |-> "none", num |-> num, den |-> den]

\* pysdd Vtree(var_count, var_order, vtree_type): the vtree node over the
\* positions lo..hi of var_order has its left child over lo..VtreeSplit
VtreeSplit(type, lo, hi) ==
    IF type = "right" THEN lo
    ELSE IF type = "left" THEN hi - 1
    ELSE lo + ((hi - lo + 1) \div 2) - 1

Seg(order, lo, hi) == {order[i] : i \in lo..hi}

\* the decision nodes of the compressed and trimmed SDD of g, a function of
\* the variables at the positions lo..hi of the vtree
RECURSIVE SddNodes(_, _, _, _, _)
SddNodes(g, order, type, lo, hi) ==
    LET ess == Support(Seg(order, lo, hi), g)
    IN IF Cardinality(ess) <= 1 THEN {}
       ELSE LET mid == VtreeSplit(type, lo, hi)
                X == Seg(order, lo, mid)
                Y == Seg(order, mid + 1, hi)
                SubOf(a) == {m \cap Y : m \in {x \in g : x \cap X = a}}
                Subs == {SubOf(a) : a \in SUBSET X}
                PrimeOf(sub) == {a \in SUBSET X : SubOf(a) = sub}
            IN IF ess \subseteq X
               THEN SddNodes({m \cap X : m \in g}, order, type, lo, mid)
               ELSE IF ess \subseteq Y
               THEN SddNodes({m \cap Y : m \in g}, order, type, mid + 1, hi)
               ELSE {[lo |-> lo, hi |-> hi, fn |-> g]}
                    \cup UNION {SddNodes(PrimeOf(sub), order, type, lo, mid) : sub \in Subs}
                    \cup UNION {SddNodes(sub, order, type, mid + 1, hi) : sub \in Subs}

\* pysdd SddNode.count(): the number of decision nodes below the node
SddCount(u, vtree) ==
    IF Len(vtree.order) = 0 THEN 0
    ELSE Cardinality(SddNodes(u, vtree.order, vtree.type, 1, Len(vtree.order)))

\* pysdd SddNode.elements() of the decision node n: its (prime, sub) pairs
SddElements(n, order, type) ==
    LET mid == VtreeSplit(type, n.lo, n.hi)
        X == Seg(order, n.lo, mid)
        Y == Seg(order, mid + 1, n.hi)
        SubOf(a) == {m \cap Y : m \in {x \in n.fn : x \cap X = a}}
        Subs == {SubOf(a) : a \in SUBSET X}
    IN {[prime |-> {a \in SUBSET X : SubOf(a) = sub}, sub |-> sub, X |-> X, Y |-> Y] : sub \in Subs}

\* the primes and subs of the elements that are decision nodes
SddDecisionChildren(elems) ==
    Cardinality({e \in elems : Cardinality(Support(e.X, e.prime)) >= 2})
    + Cardinality({e \in elems : Cardinality(Support(e.Y, e.sub)) >= 2})

\* the edges the walk of count_vertices counts over the decision nodes
RECURSIVE SddEdges(_, _, _)
SddEdges(nodes, order, type) ==
    IF nodes = {} THEN 0
    ELSE LET n == CHOOSE x \in nodes : TRUE
             elems == SddElements(n, order, type)
         IN Cardinality(elems) + SddDecisionChildren(elems)
            + SddEdges(nodes \ {n}, order, type)

\* pysdd WmcManager.propagate() with unit weights: the models of the node
\* over all the variables of the manager
WmcPropagate(u) == Cardinality(u)

\* ------------------------------------------------- Python dictionaries
\* a dict is the sequence of its <<key, value>> items in insertion order
DictKeys(d) == {d[i][1] : i \in DOMAIN d}
DictValues(d) == {d[i][2] : i \in DOMAIN d}
DictGet(d, k) == d[CHOOSE i \in DOMAIN d : d[i][1] = k][2]

\* d[k] = v: a present key keeps its place and takes the new value
DictSet(d, k, v) ==
    IF k \in DictKeys(d)
    THEN [i \in DOMAIN d |-> IF d[i][1] = k THEN <<k, v>> ELSE d[i]]
    ELSE Append(d, <<k, v>>)

RECURSIVE DictFromItems(_, _)
DictFromItems(d, items) ==
    IF items = <<>> THEN d
    ELSE DictFromItems(DictSet(d, Head(items)[1], Head(items)[2]), Tail(items))

\* {v: k for k, v in d.items()}
DictInverse(d) == DictFromItems(<<>>, [i \in DOMAIN d |-> <<d[i][2], d[i][1]>>])

\* -------------------------------------- formula.py: abstraction.json
NumStr == <<"1", "2", "3", "4", "5", "6", "7", "8", "9">>

\* the SMT-LIB text of an atom (_script_from_formula + serialize)
Serialize(a) ==
    IF a.rel = "b" THEN "b1"
    ELSE IF a.rel = "lt" THEN "(< x " \o NumStr[a.c] \o ")"
    ELSE "(> " \o NumStr[a.c] \o " x)"

\* the atom read back from its SMT-LIB text (_get_formula)
Parse(text) == CHOOSE a \in RawAtoms : Serialize(a) = text

\* formula.save_abstraction_function: the JSON list of [text, id] items
save_abstraction_function(mapping) ==
    [i \in DOMAIN mapping |-> <<Serialize(mapping[i][1]), mapping[i][2]>>]

\* formula.load_abstraction_function
load_abstraction_function(items) ==
    DictFromItems(<<>>, [i \in DOMAIN items |-> <<Parse(items[i][1]), items[i][2]>>])

\* formula.save_phi / formula.read_phi: a formula as SMT-LIB text and back
save_phi(f) ==
    [atoms |-> {Serialize(a) : a \in f.atoms},
     models |-> {{Serialize(a) : a \in m} : m \in f.models}]

read_phi(file) ==
    [atoms |-> {Parse(t) : t \in file.atoms},
     models |-> {{Parse(t) : t \in m} : m \in file.models}]

\* ------------------------------------------------------ the enumerators
Strategies == {"total", "partial", "extended_partial"}

\* the lemma lists the solver can store for phi: every lemma is a clause
\* over theory atoms of which at least one occurs in phi
LemmaListsFor(phi) ==
    {L \in LemmaLists : \A i \in DOMAIN L : L[i].atoms \cap phi.atoms # {}}

\* MathSATTotalEnumerator.check_all_sat: the verdict and the solver's lemma
\* store; every theory-inconsistent total assignment met was cut by a lemma
TotalOutcomes(phi) ==
    {[sat |-> (TModels(phi) # {}), lemmas |-> L] :
        L \in {K \in LemmaListsFor(phi) : RulesOutInconsistent(phi, K)}}

\* MathSATPartialEnumerator.check_all_sat: with partial assignments some
\* theory-inconsistent extension may be left uncut when phi is satisfiable
PartialOutcomes(phi) ==
    {[sat |-> (TModels(phi) # {}), lemmas |-> L] :
        L \in {K \in LemmaListsFor(phi) : TModels(phi) = {} => RulesOutInconsistent(phi, K)}}

\* MathSATExtendedPartialEnumerator.check_all_sat: a partial pass, UNSAT if
\* it finds nothing, otherwise a total pass under every partial model whose
\* lemmas are appended to the partial ones
ExtendedPartialOutcomes(phi) ==
    IF TModels(phi) = {}
    THEN {o \in PartialOutcomes(phi) : o.sat = UNSAT}
    ELSE UNION {{[sat |-> SAT, lemmas |-> p.lemmas \o K] :
                    K \in {J \in LemmaListsFor(phi) : RulesOutInconsistent(phi, p.lemmas \o J)}} :
                p \in PartialOutcomes(phi)}

check_all_sat(solver, phi) ==
    IF solver = "total" THEN TotalOutcomes(phi)
    ELSE IF solver = "partial" THEN PartialOutcomes(phi)
    ELSE ExtendedPartialOutcomes(phi)

\* lemma_extractor.extract: the verdict and get_theory_lemmas()
extract(phi, solver) == check_all_sat(solver, phi)

\* a difference that forgets to leave out the atoms of original
atoms_difference_kept(original, expanded, seed) ==
    IF seed = "asc" THEN SortAtoms(Range(expanded)) ELSE Reverse(SortAtoms(Range(expanded)))

\* formula.atoms_difference: list(set) of the atoms of expanded not in original
atoms_difference(original, expanded, seed) ==
    LET result == Range(expanded) \ Range(original)
    IN IF seed = "asc" THEN SortAtoms(result) ELSE Reverse(SortAtoms(result))

\* a find_qvars that returns every atom of phi & lemmas once there is a
\* fresh one
find_qvars_all(original_phi, phi_and_lemmas, seed) ==
    LET phi_atoms == get_atoms(original_phi, seed)
        phi_lemma_atoms == get_atoms(phi_and_lemmas, seed)
    IN IF Len(phi_atoms) < Len(phi_lemma_atoms) THEN phi_lemma_atoms ELSE <<>>

\* lemma_extractor.find_qvars
find_qvars(original_phi, phi_and_lemmas, seed) ==
    LET phi_atoms == get_atoms(original_phi, seed)
        phi_lemma_atoms == get_atoms(phi_and_lemmas, seed)
    IN IF Len(phi_atoms) < Len(phi_lemma_atoms)
       THEN atoms_difference(phi_atoms, phi_lemma_atoms, seed)
       ELSE <<>>

\* ------------------------------------------------- tdd/theory_dd.py
_normalize_input(phi) == get_normalized(phi)

RECURSIVE Pad(_)
\* while len(tlemmas) < 2: tlemmas.append(top())
Pad(tlemmas) == IF Len(tlemmas) < 2 THEN Pad(Append(tlemmas, top)) ELSE tlemmas

\* TheoryDD._load_lemmas; src is what the caller passed (tlemmas, load_lemmas,
\* sat_result) together with the outcome of the All-SMT run when one is made
_load_lemmas(phi, src) ==
    LET loaded == IF src.mode = "tlemmas" THEN src.tlemmas
                  ELSE IF src.mode = "load_lemmas" THEN <<read_phi(src.file)>>
                  ELSE src.outcome.lemmas
        result == IF src.mode = "computed" THEN {src.outcome.sat} ELSE src.sat_result
    IN [tlemmas |-> Pad([i \in DOMAIN loaded |-> get_normalized(loaded[i])]),
        sat_result |-> result]

\* a mapping that hands the first id to every atom
BDD_first_id_mapping(atoms) == [i \in DOMAIN atoms |-> <<atoms[i], next_string(0)>>]

\* TheoryBDD._compute_mapping: ids from a new SequentialStringGenerator
BDD_compute_mapping(atoms) == [i \in DOMAIN atoms |-> <<atoms[i], next_string(i - 1)>>]

\* TheorySDD._compute_mapping: ids counted from 1
SDD_compute_mapping(atoms) == [i \in DOMAIN atoms |-> <<atoms[i], i>>]

\* the value of a call: the exception it raised ("none" if it returned) and
\* what it returned
Returned(v) == [exc |-> "none", val |-> v]
Raised(e) == [exc |-> e, val |-> {}]

\* TheoryBDD._compute_ordering: the qvars, then the other atoms in list order
_compute_ordering(qvars, atoms) ==
    qvars \o SelectSeq(atoms, LAMBDA a : a \notin Range(qvars))

\* TheoryBDD._complete_ordering: qvars, the supplied atoms, then what is left
\* of set(atoms) in set order; remaining_items.remove raises KeyError for an
\* item that is not (or no longer) in the set
_complete_ordering(qvars, atoms, use_ordering, seed) ==
    LET front == qvars \o use_ordering
        removed(k) == {front[i] : i \in 1..(k - 1)}
    IN IF \E k \in DOMAIN front : front[k] \notin Range(atoms) \ removed(k)
       THEN Raised("KeyError")
       ELSE LET remaining_items == SortAtoms(Range(atoms) \ Range(front))
            IN Returned(front \o (IF seed = "asc" THEN remaining_items
                                  ELSE Reverse(remaining_items)))

\* a build of the True terminal
_build_valid(V, mapping) == walk(V, mapping, top)

\* TheoryDD._build_unsat: walker.walk(bottom())
_build_unsat(V, mapping) == walk(V, mapping, bottom)

\* TheoryBDD._enumerate_qvars: cudd and_exists(tlemmas_dd, true, mapped_qvars)
BDD_enumerate_qvars(V, tlemmas_dd, mapped_qvars) ==
    NodeExists(V, NodeAnd(tlemmas_dd, NodeTrue(V)), Range(mapped_qvars))

\* TheorySDD._enumerate_qvars: exists_multiple over the positions of the
\* atom-literal map that hold a qvar
SDD_enumerate_qvars(V, tlemmas_dd, refinement, qvars) ==
    LET existential_map == <<0>> \o [i \in 1..Len(refinement) |->
                                        IF DictGet(refinement, i) \in Range(qvars) THEN 1 ELSE 0]
    IN NodeExists(V, tlemmas_dd, {i \in 1..Len(refinement) : existential_map[i + 1] = 1})

\* a dict as a function, for lookups by the walkers
AsFunction(d) == [k \in DictKeys(d) |-> DictGet(d, k)]

\* TheoryDD.__init__: self.mapping = {}; no method of the tdd classes
\* assigns it again
TheoryDD_mapping == <<>>

\* a build that leaves the lemmas out: the diagram of phi alone
_build_without_lemmas(cls, V, walker_mapping, self_mapping, refinement, qvars, phi, tlemmas) ==
    Returned(walk(V, walker_mapping, phi))

\* TheoryDD._build; walker_mapping is the mapping the walker was built on,
\* self_mapping is self.mapping
_build(cls, V, walker_mapping, self_mapping, refinement, qvars, phi, tlemmas) ==
    LET phi_bdd == walk(V, walker_mapping, phi)
        tlemmas_dd == walk(V, walker_mapping, big_and(tlemmas))
    IN IF \E i \in DOMAIN qvars : qvars[i] \notin DictKeys(self_mapping)
       THEN Raised("KeyError")
       ELSE LET mapped_qvars == [i \in DOMAIN qvars |-> DictGet(self_mapping, qvars[i])]
                quantified == IF Len(mapped_qvars) > 0
                              THEN IF cls = "TheoryBDD"
                                   THEN BDD_enumerate_qvars(V, tlemmas_dd, mapped_qvars)
                                   ELSE SDD_enumerate_qvars(V, tlemmas_dd, refinement, qvars)
                              ELSE tlemmas_dd
            IN Returned(NodeAnd(phi_bdd, quantified))

NoVtree == [type |-> "none", order |-> <<>>]

\* TheoryBDD.__init__ without folder_name; use_ordering is None or the list
\* the caller supplied
TheoryBDD_construct(phi_in, src, seed, use_ordering) ==
    LET phi == _normalize_input(phi_in)
        ll == _load_lemmas(phi, src)
        phi_and_lemmas == get_phi_and_lemmas(phi, ll.tlemmas)
        qvars == find_qvars(phi, phi_and_lemmas, seed)
        atoms == get_atoms(phi_and_lemmas, seed)
        abstraction == BDD_compute_mapping(atoms)
        refinement == DictInverse(abstraction)
        ordered == IF use_ordering # None
                   THEN LET supplied == CHOOSE o \in use_ordering : TRUE
                        IN _complete_ordering(qvars, atoms,
                                              [i \in DOMAIN supplied |-> get_normalized_atom(supplied[i])],
                                              seed)
                   ELSE Returned(_compute_ordering(qvars, atoms))
        ordering == ordered.val
        ordering_abstraction == [i \in DOMAIN ordering |-> DictGet(abstraction, ordering[i])]
        V == Range(ordering_abstraction)
        built == IF ll.sat_result = None \/ ll.sat_result = {SAT}
                 THEN _build("TheoryBDD", V, AsFunction(abstraction), TheoryDD_mapping,
                             refinement, qvars, phi, ll.tlemmas)
                 ELSE Returned(_build_unsat(V, AsFunction(abstraction)))
    IN IF ordered.exc # "none" THEN Raised(ordered.exc)
       ELSE IF built.exc # "none" THEN built
       ELSE Returned([cls |-> "TheoryBDD", abstraction |-> abstraction, refinement |-> refinement,
                      qvars |-> qvars, ordering |-> ordering, bdd |-> ordering_abstraction,
                      vtree |-> NoVtree, root |-> built.val])

\* TheoryBDD.__init__ without folder_name and without use_ordering
TheoryBDD_init(phi_in, src, seed) ==
    LET phi == _normalize_input(phi_in)
        ll == _load_lemmas(phi, src)
        phi_and_lemmas == get_phi_and_lemmas(phi, ll.tlemmas)
        qvars == find_qvars(phi, phi_and_lemmas, seed)
        atoms == get_atoms(phi_and_lemmas, seed)
        abstraction == BDD_compute_mapping(atoms)
        refinement == DictInverse(abstraction)
        ordering == _compute_ordering(qvars, atoms)
        ordering_abstraction == [i \in DOMAIN ordering |-> DictGet(abstraction, ordering[i])]
        V == Range(ordering_abstraction)
        built == IF ll.sat_result = None \/ ll.sat_result = {SAT}
                 THEN _build("TheoryBDD", V, AsFunction(abstraction), TheoryDD_mapping,
                             refinement, qvars, phi, ll.tlemmas)
                 ELSE Returned(_build_unsat(V, AsFunction(abstraction)))
    IN IF built.exc # "none" THEN built
       ELSE Returned([cls |-> "TheoryBDD", abstraction |-> abstraction, refinement |-> refinement,
                      qvars |-> qvars, ordering |-> ordering, bdd |-> ordering_abstraction,
                      vtree |-> NoVtree, root |-> built.val])

\* TheorySDD._get_atom_literal_map: refinement[i] -> literal i
_get_atom_literal_map(abstraction, refinement) ==
    DictFromItems(<<>>, [i \in 1..Len(abstraction) |-> <<DictGet(refinement, i), i>>])

\* TheorySDD._build_vtree
_build_vtree(abstraction, vtree_type) ==
    [type |-> vtree_type, order |-> [i \in 1..Len(abstraction) |-> i]]

\* TheorySDD.__init__ without folder_name
TheorySDD_init(phi_in, src, seed, vtree_type) ==
    LET phi == _normalize_input(phi_in)
        ll == _load_lemmas(phi, src)
        phi_and_lemmas == get_phi_and_lemmas(phi, ll.tlemmas)
        qvars == find_qvars(phi, phi_and_lemmas, seed)
        atoms == get_atoms(phi_and_lemmas, seed)
        abstraction == SDD_compute_mapping(atoms)
        refinement == DictInverse(abstraction)
        vtree == _build_vtree(abstraction, vtree_type)
        V == Range(vtree.order)
        atom_literal_map == _get_atom_literal_map(abstraction, refinement)
        built == IF ll.sat_result = None \/ ll.sat_result = {SAT}
                 THEN _build("TheorySDD", V, AsFunction(atom_literal_map), TheoryDD_mapping,
                             refinement, qvars, phi, ll.tlemmas)
                 ELSE Returned(_build_unsat(V, AsFunction(atom_literal_map)))
    IN IF built.exc # "none" THEN built
       ELSE Returned([cls |-> "TheorySDD", abstraction |-> abstraction, refinement |-> refinement,
                      qvars |-> qvars, ordering |-> <<>>, bdd |-> <<>>,
                      vtree |-> vtree, root |-> built.val])

\* the variables declared in the manager of a T-diagram
Declared(d) == IF d.cls = "TheoryBDD" THEN Range(d.bdd) ELSE Range(d.vtree.order)

\* ------------------------------------------ queries of a T-diagram d
Max(a, b) == IF a >= b THEN a ELSE b

\* TheoryBDD.__len__ / TheorySDD.__len__ (count_nodes returns len(self))
tdd_len(d) ==
    IF d.cls = "TheoryBDD" THEN BddLen(d.root, d.bdd)
    ELSE Max(SddCount(d.root, d.vtree), 1)

\* TheoryBDD.count_models / TheorySDD.count_models
tdd_count_models(d) ==
    IF d.cls = "TheoryBDD"
    THEN CuddCount(Declared(d), d.root, Len(d.abstraction) - Len(d.qvars))
    ELSE Reduce(WmcPropagate(d.root), Pow2(Len(d.qvars)))

\* is_sat: self.root != false
is_sat(d) == d.root # NodeFalse

\* is_valid: self.root == true
is_valid(d) == d.root = NodeTrue(Declared(d))

\* TheoryBDD.count_vertices: len(self) * 2; TheorySDD.count_vertices: 0 for a
\* root that is no decision node, otherwise the walk from the root adds
\* len(elements) for every decision node it expands (each one once) and 1
\* for every prime or sub it pops that is a decision node
tdd_count_vertices(d) ==
    IF d.cls = "TheoryBDD" THEN BddLen(d.root, d.bdd) * 2
    ELSE IF Len(d.vtree.order) = 0 THEN 0
    ELSE SddEdges(SddNodes(d.root, d.vtree.order, d.vtree.type, 1, Len(d.vtree.order)),
                  d.vtree.order, d.vtree.type)

\* the outcomes of the engine's model counting: a count, or the RuntimeError
\* CUDD raises when it runs out of memory
EngineOutcomes == {"none", "RuntimeError"}

\* count_models that lets the engine's error out
count_models_unguarded(d, engine) ==
    IF engine = "RuntimeError" THEN [exc |-> "RuntimeError", num |-> 0, den |-> 1]
    ELSE tdd_count_models(d)

\* TheoryBDD.count_models / TheorySDD.count_models when the engine's counting
\* ends as engine: the T-BDD turns a RuntimeError into -1, the T-SDD has no
\* handler
count_models(d, engine) ==
    IF engine = "RuntimeError"
    THEN IF d.cls = "TheoryBDD" THEN [exc |-> "none", num |-> 0 - 1, den |-> 1]
         ELSE [exc |-> "RuntimeError", num |-> 0, den |-> 1]
    ELSE tdd_count_models(d)

\* _get_care_vars: the ids of the atoms that are not qvars
_get_care_vars(d) ==
    DictValues(d.abstraction) \ {DictGet(d.abstraction, q) : q \in Range(d.qvars)}

\* an engine assignment: the truth value of every variable of W under m
AssignOver(m, W) == [v \in W |-> v \in m]

\* TheoryBDD._convert_assignment
_convert_assignment(d, assignment) ==
    [a \in {DictGet(d.refinement, v) : v \in DOMAIN assignment} |->
        assignment[CHOOSE v \in DOMAIN assignment : DictGet(d.refinement, v) = a]]

\* TheorySDD._refine_model: the qvars are skipped
_refine_model(d, model) ==
    [a \in {DictGet(d.refinement, v) : v \in DOMAIN model} \ Range(d.qvars) |->
        model[CHOOSE v \in DOMAIN model : DictGet(d.refinement, v) = a]]

\* pysdd SddNode.models(): assignments to the variables of the vtree node
\* the root is normalized for (all the variables for a constant)
RECURSIVE SddScope(_, _, _, _, _)
SddScope(g, order, type, lo, hi) ==
    LET ess == Support(Seg(order, lo, hi), g)
        mid == VtreeSplit(type, lo, hi)
    IN IF ess = {} \/ lo = hi THEN Seg(order, lo, hi)
       ELSE IF ess \subseteq Seg(order, lo, mid)
       THEN SddScope({m \cap Seg(order, lo, mid) : m \in g}, order, type, lo, mid)
       ELSE IF ess \subseteq Seg(order, mid + 1, hi)
       THEN SddScope({m \cap Seg(order, mid + 1, hi) : m \in g}, order, type, mid + 1, hi)
       ELSE Seg(order, lo, hi)

SddModels(d) ==
    LET W == SddScope(d.root, d.vtree.order, d.vtree.type, 1, Len(d.vtree.order))
    IN {AssignOver(m, W) : m \in d.root}

\* the values pick() can return: None, or one model; the T-BDD hands over
\* root.pick(), an assignment to the support of the root
tdd_pick(d) ==
    IF ~is_sat(d) THEN {None}
    ELSE IF d.cls = "TheoryBDD"
    THEN {{_convert_assignment(d, AssignOver(m, Support(Declared(d), d.root)))} : m \in d.root}
    ELSE {{_refine_model(d, mod)} : mod \in SddModels(d)}

\* the models pick_all() returns (pick_all_iter yields the same ones); the
\* T-BDD enumerates bdd.pick_iter(root, care_vars): assignments to the
\* support of the root and the care variables
tdd_pick_all(d) ==
    IF ~is_sat(d) THEN {}
    ELSE IF d.cls = "TheoryBDD"
    THEN {_convert_assignment(d, AssignOver(m, Support(Declared(d), d.root) \cup _get_care_vars(d))) :
            m \in d.root}
    ELSE {_refine_model(d, mod) : mod \in SddModels(d)}

\* the literals condition() accepts: a declared label, negated or not
Labels(d) == {[negated |-> n, label |-> v] : n \in BOOLEAN, v \in Declared(d)}

\* a condition that keeps the literal and forgets the old root
tdd_condition_forgetting(d, lit) ==
    LET V == Declared(d)
    IN [d EXCEPT !.root = IF lit.negated THEN NodeNot(V, NodeVar(V, lit.label))
                          ELSE NodeVar(V, lit.label)]

\* a condition that never negates the literal
tdd_condition_unsigned(d, lit) ==
    LET V == Declared(d)
    IN [d EXCEPT !.root = NodeAnd(d.root, NodeVar(V, lit.label))]

\* TheoryBDD.condition / TheorySDD.condition: self.root = self.root & literal
tdd_condition(d, lit) ==
    LET V == Declared(d)
        var == IF d.cls = "TheoryBDD" THEN lit.label
               ELSE DictGet(_get_atom_literal_map(d.abstraction, d.refinement),
                            DictGet(d.refinement, lit.label))
        condition_dd == IF lit.negated THEN NodeNot(V, NodeVar(V, var))
                        ELSE NodeVar(V, var)
    IN [d EXCEPT !.root = NodeAnd(d.root, condition_dd)]

\* ------------------------------------------------------ persistence
\* the engine's dump of a node (dddmp, sdd file): the node graph, which
\* names the variables of the support only
DumpNode(V, u) ==
    [support |-> Support(V, u), cubes |-> {m \cap Support(V, u) : m \in u}]

\* a reader that keeps the variables and drops the cubes of the file
LoadNodeOfNoCubes(V, file) == SUBSET V

\* the node read back into a manager with the variables V
LoadNode(V, file) == {m \in SUBSET V : (m \cap file.support) \in file.cubes}

\* util/_utils.cudd_dump: the pickled variable order {var: level} and the
\* dddmp file of the root
cudd_dump(levels, root) ==
    [pickle |-> [v \in Range(levels) |-> (CHOOSE i \in DOMAIN levels : levels[i] = v) - 1],
     dddmp |-> DumpNode(Range(levels), root)]

\* util/_utils.cudd_load: declares the variables of the pickled order,
\* reorders the manager to it and returns the pair (root, order)
cudd_load(files) ==
    <<LoadNode(DOMAIN files.pickle, files.dddmp), files.pickle>>

\* the variables of a manager listed by level, for an order {var: level}
LevelsOf(order) ==
    [i \in 1..Cardinality(DOMAIN order) |-> CHOOSE v \in DOMAIN order : order[v] = i - 1]

NoFolder == [kind |-> "none"]

\* TheoryBDD.save_to_folder / TheorySDD.save_to_folder: the files written
tdd_save_to_folder(d) ==
    LET qvars_indexes == [i \in DOMAIN d.qvars |-> DictGet(d.abstraction, d.qvars[i])]
    IN IF d.cls = "TheoryBDD"
       THEN [kind |-> "tbdd",
             abstraction_json |-> save_abstraction_function(d.abstraction),
             qvars_qvars |-> qvars_indexes,
             tbdd_data |-> cudd_dump(d.bdd, d.root)]
       ELSE [kind |-> "tsdd",
             abstraction_json |-> save_abstraction_function(d.abstraction),
             qvars_qvars |-> qvars_indexes,
             vtree_vtree |-> d.vtree,
             sdd_sdd |-> DumpNode(Declared(d), d.root)]

\* TheoryBDD._load_from_folder: the keys of the abstraction go through the
\* normalizer again
TheoryBDD_load_from_folder(folder) ==
    LET abstraction == load_abstraction_function(folder.abstraction_json)
        normalized == DictFromItems(<<>>, [i \in DOMAIN abstraction |->
                                             <<ConvertBack(abstraction[i][1]), abstraction[i][2]>>])
        refinement == DictInverse(normalized)
        loaded == cudd_load(folder.tbdd_data)
        ordering_dict == loaded[2]
    IN [cls |-> "TheoryBDD", abstraction |-> normalized, refinement |-> refinement,
        qvars |-> [i \in DOMAIN folder.qvars_qvars |-> DictGet(refinement, folder.qvars_qvars[i])],
        ordering |-> [i \in 1..Cardinality(DOMAIN ordering_dict) |->
                        DictGet(refinement, LevelsOf(ordering_dict)[i])],
        bdd |-> LevelsOf(ordering_dict), vtree |-> NoVtree, root |-> loaded[1]]

\* TheorySDD._load_from_folder
TheorySDD_load_from_folder(folder) ==
    LET vtree == folder.vtree_vtree
        abstraction == load_abstraction_function(folder.abstraction_json)
        refinement == DictInverse(abstraction)
    IN [cls |-> "TheorySDD", abstraction |-> abstraction, refinement |-> refinement,
        qvars |-> [i \in DOMAIN folder.qvars_qvars |-> DictGet(refinement, folder.qvars_qvars[i])],
        ordering |-> <<>>, bdd |-> <<>>, vtree |-> vtree,
        root |-> LoadNode(Range(vtree.order), folder.sdd_sdd)]

\* ---------------------------------------- loading with missing files
\* the files save_to_folder writes for a T-BDD and for a T-SDD
Artifacts(kind) ==
    IF kind = "tbdd"
    THEN {"abstraction.json", "qvars.qvars", "tbdd_data.pickle", "tbdd_data.dddmp"}
    ELSE {"abstraction.json", "qvars.qvars", "vtree.vtree", "sdd.sdd"}

\* what a call of the engine (dd.cudd BDD.load, pysdd Vtree(filename=...),
\* SddManager.read_sdd_file) does with a path that does not exist is the
\* engine's business: a FileNotFoundError or an error of its own
EngineFileErrors == {"FileNotFoundError", "EngineError"}

\* one step of a loader: the path it reads ("" for none), the exceptions a
\* missing path ends in, whether the message names the path, the fields the
\* step assigns, whether it creates or reads the engine manager
LoadStep(needs, exc, named, sets, manager) ==
    [needs |-> needs, exc |-> exc, named |-> named, sets |-> sets, manager |-> manager]

\* TheoryBDD._load_from_folder with cudd_load, statement by statement
TheoryBDD_load_steps ==
    <<LoadStep("folder", {"FileNotFoundError"}, TRUE, {}, FALSE),
      LoadStep("abstraction.json", {"FileNotFoundError"}, TRUE, {}, FALSE),
      LoadStep("qvars.qvars", {"FileNotFoundError"}, TRUE, {}, FALSE),
      LoadStep("abstraction.json", {"FileNotFoundError"}, TRUE, {"abstraction", "refinement"}, FALSE),
      LoadStep("", {}, FALSE, {"bdd"}, TRUE),
      LoadStep("tbdd_data.pickle", {"FileNotFoundError"}, TRUE, {}, TRUE),
      LoadStep("tbdd_data.dddmp", EngineFileErrors, TRUE, {"root", "ordering"}, TRUE),
      LoadStep("qvars.qvars", {"FileNotFoundError"}, TRUE, {"qvars"}, FALSE)>>

\* TheorySDD._load_from_folder with vtree_load_from_folder
TheorySDD_load_steps ==
    <<LoadStep("folder", {"FileNotFoundError"}, FALSE, {}, FALSE),
      LoadStep("folder", {"FileNotFoundError"}, FALSE, {}, FALSE),
      LoadStep("vtree.vtree", EngineFileErrors, TRUE, {"vtree"}, FALSE),
      LoadStep("abstraction.json", {"FileNotFoundError"}, TRUE, {"abstraction"}, FALSE),
      LoadStep("", {}, FALSE, {"manager", "refinement", "atom_literal_map"}, TRUE),
      LoadStep("sdd.sdd", EngineFileErrors, TRUE, {"root"}, TRUE),
      LoadStep("qvars.qvars", {"FileNotFoundError"}, TRUE, {"qvars"}, FALSE)>>

\* the steps of the loader of a folder of the kind
LoadSteps(kind) == IF kind = "tbdd" THEN TheoryBDD_load_steps ELSE TheorySDD_load_steps

\* the ways the loader can end when the paths in present exist: the
\* exception, the path it was raised for, whether the message names it, the
\* fields assigned and whether the manager was touched before
RECURSIVE RunLoad(_, _, _, _, _)
RunLoad(steps, k, present, fields, manager) ==
    IF k > Len(steps)
    THEN {[exc |-> "none", path |-> "", named |-> FALSE, fields |-> fields, manager |-> manager]}
    ELSE LET st == steps[k]
         IN IF st.needs # "" /\ st.needs \notin present
            THEN {[exc |-> e, path |-> st.needs, named |-> st.named /\ e = "FileNotFoundError",
                   fields |-> fields, manager |-> manager \/ st.manager] : e \in st.exc}
            ELSE RunLoad(steps, k + 1, present, fields \cup st.sets, manager \/ st.manager)

\* the folders with something missing: no folder at all, or the folder
\* without some of its files
DamagedFolders(kind) ==
    {{}} \cup {{"folder"} \cup fs : fs \in (SUBSET Artifacts(kind)) \ {Artifacts(kind)}}

\* ------------------------------------- theory_bdd.py (the older module)
\* theorydd.theory_bdd.TheoryBDD.__init__: the same pipeline written in one
\* method; it keeps the abstraction in self.mapping and always builds
\* phi & lemmas
Legacy_TheoryBDD_init(phi_in, tlemmas_in, seed) ==
    LET phi == get_normalized(phi_in)
        tlemmas == Pad([i \in DOMAIN tlemmas_in |-> get_normalized(tlemmas_in[i])])
        phi_and_lemmas == get_phi_and_lemmas(phi, tlemmas)
        qvars == find_qvars(phi, phi_and_lemmas, seed)
        atoms == get_atoms(phi_and_lemmas, seed)
        mapping == BDD_compute_mapping(atoms)
        mapped_qvars == [i \in DOMAIN qvars |-> DictGet(mapping, qvars[i])]
        all_values == mapped_qvars \o SelectSeq([i \in DOMAIN mapping |-> mapping[i][2]],
                                               LAMBDA v : v \notin Range(mapped_qvars))
        V == Range(all_values)
        phi_bdd == walk(V, AsFunction(mapping), phi)
        tlemmas_bdd == walk(V, AsFunction(mapping), big_and(tlemmas))
        quantified == IF Len(mapped_qvars) > 0
                      THEN NodeExists(V, NodeAnd(tlemmas_bdd, NodeTrue(V)), Range(mapped_qvars))
                      ELSE tlemmas_bdd
    IN [cls |-> "TheoryBDD", abstraction |-> mapping, refinement |-> DictInverse(mapping),
        qvars |-> qvars, ordering |-> [i \in DOMAIN all_values |-> DictGet(DictInverse(mapping), all_values[i])],
        bdd |-> all_values, vtree |-> NoVtree, root |-> NodeAnd(phi_bdd, quantified)]

\* ------------------------------------------------ abstractdd/*.py
\* AbstractDD._compute_mapping(self, phi, computation_logger)
AbstractDD_compute_mapping(phi, seed) == BDD_compute_mapping(get_atoms(phi, seed))

\* the root attribute of an abstraction diagram: an engine node, or the
\* pair cudd_load returned
RootNode(u) == [kind |-> "node", node |-> u, order |-> <<>>]
RootTuple(pair) == [kind |-> "tuple", node |-> pair[1], order |-> pair[2]]

\* AbstractionBDD.__init__ without folder_name, with AbstractionBDD._build
AbstractionBDD_init(phi_in, seed) ==
    LET phi == get_normalized(phi_in)
        mapping == AbstractDD_compute_mapping(phi, seed)
        all_values == [i \in DOMAIN mapping |-> mapping[i][2]]
    IN Returned([cls |-> "AbstractionBDD", mapping |-> mapping, bdd |-> all_values,
                 root |-> RootNode(walk(Range(all_values), AsFunction(mapping), phi))])

\* AbstractionSDD.__init__ without folder_name: it calls
\* self._compute_mapping(phi, verbose, computation_logger), one argument
\* more than AbstractDD._compute_mapping takes
AbstractionSDD_init(phi_in, seed) == Raised("TypeError")

\* AbstractionBDD.__len__: len(self.root)
abstraction_len(d) ==
    IF d.root.kind = "tuple" THEN Returned(2)
    ELSE Returned(BddLen(d.root.node, d.bdd))

\* AbstractionBDD.count_models: self.root.count(nvars=len(mapping)); a tuple
\* has a count method that takes no keyword argument
abstraction_count_models(d) ==
    IF d.root.kind = "tuple" THEN [exc |-> "TypeError", num |-> 0, den |-> 1]
    ELSE CuddCount(Range(d.bdd), d.root.node, Len(d.mapping))

\* AbstractionBDD.save_to_folder: cudd_dump reads root.bdd
abstraction_save_to_folder(d) ==
    IF d.root.kind = "tuple" THEN Raised("AttributeError")
    ELSE Returned([kind |-> "abstraction_bdd",
                   abstraction_json |-> save_abstraction_function(d.mapping),
                   abstraction_bdd_data |-> cudd_dump(d.bdd, d.root.node)])

\* AbstractionBDD._load_from_folder: self.root = cudd_load(...)
AbstractionBDD_load_from_folder(folder) ==
    LET mapping == load_abstraction_function(folder.abstraction_json)
        loaded == cudd_load(folder.abstraction_bdd_data)
    IN [cls |-> "AbstractionBDD", mapping |-> mapping, bdd |-> LevelsOf(loaded[2]),
        root |-> RootTuple(loaded)]

\* ------------------------------------------ util/disjoint_set.py
\* DisjointSet(data): one node per datum, each its own parent with rank 1;
\* indexes are 1-based here
DisjointSet(data) ==
    [data |-> data,
     parent |-> [i \in DOMAIN data |-> i],
     rank |-> [i \in DOMAIN data |-> 1]]

\* self.reference[data]
Reference(ds, d) == CHOOSE i \in DOMAIN ds.data : ds.data[i] = d

\* DisjointSet._find: the representative of the set of the node at index
RECURSIVE _find(_, _)
_find(ds, index) ==
    IF ds.parent[index] # index THEN _find(ds, ds.parent[index]) ELSE index

\* the nodes _find visits on its way from index to the representative
RECURSIVE FindPath(_, _)
FindPath(ds, index) ==
    IF ds.parent[index] # index THEN {index} \cup FindPath(ds, ds.parent[index]) ELSE {index}

\* the flattening of _find: every visited node takes the representative as parent
Flattened(ds, index) ==
    [ds EXCEPT !.parent = [i \in DOMAIN ds.parent |->
                             IF i \in FindPath(ds, index) THEN _find(ds, index)
                             ELSE ds.parent[i]]]

\* DisjointSet.find
find(ds, d) == _find(ds, Reference(ds, d))

\* a union that leaves the sets as they are
_union_skipped(ds, index1, index2) == ds

\* a union that hangs the second root under the first and leaves the ranks
_union_unranked(ds, index1, index2) ==
    LET d1 == Flattened(ds, index1)
        d2 == Flattened(d1, index2)
    IN IF _find(d2, index1) = _find(d2, index2) THEN d2
       ELSE [d2 EXCEPT !.parent[_find(d2, index2)] = _find(d2, index1)]

\* DisjointSet._union: by rank, the rank of a merged root is the sum of the ranks
_union(ds, index1, index2) ==
    LET d1 == Flattened(ds, index1)
        root_a == _find(d1, index1)
        d2 == Flattened(d1, index2)
        root_b == _find(d2, index2)
        new_rank == d2.rank[root_a] + d2.rank[root_b]
    IN IF root_a = root_b THEN d2
       ELSE IF d2.rank[root_a] >= d2.rank[root_b]
       THEN [d2 EXCEPT !.parent[root_b] = root_a, !.rank[root_a] = new_rank]
       ELSE [d2 EXCEPT !.parent[root_a] = root_b, !.rank[root_b] = new_rank]

\* DisjointSet.union
union(ds, data1, data2) == _union(ds, Reference(ds, data1), Reference(ds, data2))

\* DisjointSet.get_sets: the values of the dict {root: set of data}, by the
\* first node of each root
RECURSIVE GetSetsFrom(_, _, _)
GetSetsFrom(ds, i, sets) ==
    IF i > Len(ds.data) THEN sets
    ELSE LET root == _find(ds, i)
             old == IF root \in DictKeys(sets) THEN DictGet(sets, root) ELSE {}
         IN GetSetsFrom(ds, i + 1, DictSet(sets, root, old \cup {ds.data[i]}))

get_sets(ds) == GetSetsFrom(ds, 1, <<>>)

\* ------------------------------- formula.py: get_atom_partitioning
\* the free variables of the atoms of a partitioning input; an atom is its
\* place in get_atoms(phi) and the list of its free variables
PartVars == {"x", "y", "z"}

VarRank(v) == IF v = "x" THEN 1 ELSE IF v = "y" THEN 2 ELSE 3

VarLists ==
    {<<>>} \cup {<<v>> : v \in PartVars}
           \cup {<<p[1], p[2]>> : p \in {q \in PartVars \X PartVars : q[1] # q[2]}}

\* get_atoms(phi) for the formulas of at most MaxPartAtoms atoms
PartInputs ==
    UNION {{[i \in 1..n |-> [name |-> i, vars |-> f[i]]] : f \in [1..n -> VarLists]} :
             n \in 0..MaxPartAtoms}

\* phi.get_free_variables() listed
AllVars(atoms) ==
    LET S == UNION {Range(atoms[i].vars) : i \in DOMAIN atoms}
    IN [i \in 1..Cardinality(S) |->
          CHOOSE v \in S : Cardinality({w \in S : VarRank(w) < VarRank(v)}) = i - 1]

\* the inner loops of the first pass: union(var_1, var_2) for the pairs of
\* variables of one atom
RECURSIVE JoinVars(_, _, _, _)
JoinVars(ds, atom_vars, i, j) ==
    IF i > Len(atom_vars) THEN ds
    ELSE IF j > Len(atom_vars) THEN JoinVars(ds, atom_vars, i + 1, i + 2)
    ELSE JoinVars(union(ds, atom_vars[i], atom_vars[j]), atom_vars, i, j + 1)

\* the first pass over atoms: the atoms without free variables are skipped
RECURSIVE JoinAllVars(_, _, _)
JoinAllVars(ds, atoms, k) ==
    IF k > Len(atoms) THEN ds
    ELSE IF Len(atoms[k].vars) = 0 THEN JoinAllVars(ds, atoms, k + 1)
    ELSE JoinAllVars(JoinVars(ds, atoms[k].vars, 1, 2), atoms, k + 1)

\* the second pass: theory_atoms[index] is joined with every atom of
\* atoms[(index + 1):] whose representative variable has the same find
RECURSIVE JoinAtoms(_, _, _, _, _, _)
JoinAtoms(ds_atoms, ds_vars, theory_atoms, atoms, index, k) ==
    IF index > Len(theory_atoms) THEN ds_atoms
    ELSE IF k > Len(atoms) THEN JoinAtoms(ds_atoms, ds_vars, theory_atoms, atoms, index + 1, index + 2)
    ELSE LET atom_1_repr == find(ds_vars, theory_atoms[index].vars[1])
             atom_2_repr == find(ds_vars, atoms[k].vars[1])
         IN JoinAtoms(IF atom_1_repr = atom_2_repr
                      THEN union(ds_atoms, theory_atoms[index], atoms[k])
                      ELSE ds_atoms,
                      ds_vars, theory_atoms, atoms, index, k + 1)

\* get_atom_partitioning(phi) for atoms = get_atoms(phi): the list of sets,
\* or the KeyError of atoms_repr_vars[atom_2] for an atom_2 without free
\* variables
\* (phi.get_free_variables() is a set, empty when phi has no free variable,
\* and never None: the early return of [set(atoms)] is not taken)
get_atom_partitioning(atoms) ==
    LET theory_atoms == SelectSeq(atoms, LAMBDA a : Len(a.vars) > 0)
        disjoint_set_vars == JoinAllVars(DisjointSet(AllVars(atoms)), atoms, 1)
        booleans == SelectSeq(atoms, LAMBDA a : Len(a.vars) = 0)
    IN IF \E index \in DOMAIN theory_atoms :
             \E k \in (index + 1)..Len(atoms) : Len(atoms[k].vars) = 0
       THEN Raised("KeyError")
       ELSE LET disjoint_set_atoms ==
                    JoinAtoms(DisjointSet(theory_atoms), disjoint_set_vars,
                              theory_atoms, atoms, 1, 2)
                atoms_sets == [i \in DOMAIN get_sets(disjoint_set_atoms) |->
                                  get_sets(disjoint_set_atoms)[i][2]]
            IN Returned(atoms_sets \o [i \in DOMAIN booleans |-> {booleans[i]}])

\* ============================================================== state
VARIABLES
    pc,       \* "none", then "built" / "raised" (constructor), "loaded"
    tdd,      \* the T-diagram object (TheoryBDD or TheorySDD)
    call,     \* the constructor call that made tdd: its arguments, the All-SMT outcome
    nconds,   \* condition calls made on tdd
    folder,   \* the folder written by save_to_folder of a T-diagram
    saved,    \* count_nodes and count_models of the diagram that wrote folder
    prev,     \* count_models of the diagram built before a rebuild from a lemma file
    adiag,    \* the abstraction diagram object built on the same phi
    afolder,  \* the folder written by save_to_folder of adiag
    asaved,   \* len and count_models of the diagram that wrote afolder
    last      \* the last call made and what it returned or raised

vars == <<pc, tdd, call, nconds, folder, saved, prev, adiag, afolder, asaved, last>>

NoObject == [cls |-> "none"]
NoCall == [mode |-> "none"]
NoCounts == [known |-> FALSE]
NoResult == [op |-> "none", exc |-> "none", val |-> {}]
Result(op, r) == [op |-> op, exc |-> r.exc, val |-> r.val]

Classes == {"TheoryBDD", "TheorySDD"}
DefaultVtree == "balanced"

Init ==
    /\ pc = "none"
    /\ tdd = NoObject
    /\ call = NoCall
    /\ nconds = 0
    /\ folder = NoFolder
    /\ saved = NoCounts
    /\ prev = NoCounts
    /\ adiag = NoObject
    /\ afolder = NoFolder
    /\ asaved = NoCounts
    /\ last = NoResult

\* the constructor of class cls
tdd_init(cls, phi, src, seed) ==
    IF cls = "TheoryBDD" THEN TheoryBDD_init(phi, src, seed)
    ELSE TheorySDD_init(phi, src, seed, DefaultVtree)

\* a constructor call returns the object or raises
Constructed(cls, phi, src, solver, seed) ==
    LET r == tdd_init(cls, phi, src, seed)
    IN /\ pc' = IF r.exc = "none" THEN "built" ELSE "raised"
       /\ tdd' = IF r.exc = "none" THEN r.val ELSE NoObject
       /\ call' = [mode |-> src.mode, cls |-> cls, phi |-> phi, solver |-> solver,
                   lemmas |-> src.outcome.lemmas, verdict |-> src.outcome.sat,
                   sat_result |-> src.sat_result, seed |-> seed]
       /\ last' = [op |-> cls, exc |-> r.exc, val |-> {}]
       /\ nconds' = 0

\* TheoryBDD(phi, solver) / TheorySDD(phi, solver) for a phi of pool: the
\* lemmas are computed
ConstructFrom(pool) ==
    /\ pc = "none"
    /\ folder.kind = "none"
    /\ \E cls \in Classes, phi \in pool, solver \in Strategies, seed \in Seeds :
        \E o \in extract(_normalize_input(phi), solver) :
            Constructed(cls, phi,
                        [mode |-> "computed", tlemmas |-> <<>>, file |-> save_phi(top),
                         outcome |-> o, sat_result |-> None],
                        solver, seed)
    /\ UNCHANGED <<folder, saved, prev, adiag, afolder, asaved>>

ConstructComputed == ConstructFrom(PhiPool)

\* TheoryBDD(phi, solver, tlemmas=..., sat_result=...): the lemmas of an
\* earlier extended-partial All-SMT run on phi are supplied, with or without
\* its verdict
ConstructWithLemmas ==
    /\ pc = "none"
    /\ folder.kind = "none"
    /\ \E cls \in Classes, phi \in PhiPool, solver \in {"extended_partial"}, seed \in Seeds :
        \E o \in extract(_normalize_input(phi), solver) :
            \E sr \in {None, {o.sat}} :
                Constructed(cls, phi,
                            [mode |-> "tlemmas", tlemmas |-> o.lemmas, file |-> save_phi(top),
                             outcome |-> o, sat_result |-> sr],
                            solver, seed)
    /\ UNCHANGED <<folder, saved, prev, adiag, afolder, asaved>>

\* after a diagram was built by computing the lemmas: the lemmas are saved
\* to a file and a second diagram of the same phi is built with
\* load_lemmas pointing at the file
ConstructFromLemmaFile ==
    /\ pc = "built"
    /\ call.mode = "computed"
    /\ nconds = 0
    /\ folder.kind = "none"
    /\ adiag.cls = "none"
    /\ prev' = [known |-> TRUE, models |-> tdd_count_models(tdd)]
    /\ \E seed \in Seeds :
        Constructed(call.cls, call.phi,
                    [mode |-> "load_lemmas", tlemmas |-> <<>>,
                     file |-> save_phi(big_and(call.lemmas)),
                     outcome |-> [sat |-> call.verdict, lemmas |-> call.lemmas],
                     sat_result |-> None],
                    call.solver, seed)
    /\ UNCHANGED <<folder, saved, adiag, afolder, asaved>>

HasTdd == pc \in {"built", "loaded"}

\* the calls that read a T-diagram
Query(op, r) ==
    /\ HasTdd
    /\ adiag.cls = "none"
    /\ last' = [op |-> op, exc |-> r.exc, val |-> r.val]
    /\ UNCHANGED <<pc, tdd, call, nconds, folder, saved, prev, adiag, afolder, asaved>>

CountNodes == Query("count_nodes", Returned(tdd_len(tdd)))

CountModels ==
    LET c == tdd_count_models(tdd)
    IN Query("count_models", [exc |-> c.exc, val |-> <<c.num, c.den>>])

Pick == HasTdd /\ \E r \in tdd_pick(tdd) : Query("pick", Returned(r))

PickAll == Query("pick_all", Returned(tdd_pick_all(tdd)))

PickAllIter == Query("pick_all_iter", Returned(tdd_pick_all(tdd)))

CountVertices == Query("count_vertices", Returned(tdd_count_vertices(tdd)))

IsSat == Query("is_sat", Returned(is_sat(tdd)))

IsValid == Query("is_valid", Returned(is_valid(tdd)))

\* d.count_models() with an engine that counts or runs out of memory
CountModelsEngine ==
    /\ HasTdd
    /\ adiag.cls = "none"
    /\ \E engine \in EngineOutcomes :
        LET c == count_models(tdd, engine)
        IN last' = [op |-> "count_models", exc |-> c.exc, val |-> <<c.num, c.den>>,
                    engine |-> engine]
    /\ UNCHANGED <<pc, tdd, call, nconds, folder, saved, prev, adiag, afolder, asaved>>

\* d.condition(label)
Condition ==
    /\ HasTdd
    /\ adiag.cls = "none"
    /\ nconds < MaxConditions
    /\ \E lit \in Labels(tdd) : tdd' = tdd_condition(tdd, lit)
    /\ nconds' = nconds + 1
    /\ last' = [op |-> "condition", exc |-> "none", val |-> {}]
    /\ UNCHANGED <<pc, call, folder, saved, prev, adiag, afolder, asaved>>

\* d.save_to_folder(path): into a new folder, or over the folder the
\* diagram was loaded from
SaveToFolder ==
    /\ HasTdd
    /\ adiag.cls = "none"
    /\ folder.kind = "none" \/ (pc = "loaded" /\ ~saved.known)
    /\ folder' = tdd_save_to_folder(tdd)
    /\ saved' = [known |-> TRUE, nodes |-> tdd_len(tdd), models |-> tdd_count_models(tdd)]
    /\ last' = [op |-> "save_to_folder", exc |-> "none", val |-> {}]
    /\ UNCHANGED <<pc, tdd, call, nconds, prev, adiag, afolder, asaved>>

\* tbdd_load_from_folder(path) / tsdd_load_from_folder(path)
LoadFromFolder ==
    /\ folder.kind \in {"tbdd", "tsdd"}
    /\ adiag.cls = "none"
    /\ tdd' = IF folder.kind = "tbdd" THEN TheoryBDD_load_from_folder(folder)
              ELSE TheorySDD_load_from_folder(folder)
    /\ pc' = "loaded"
    /\ last' = [op |-> "load_from_folder", exc |-> "none", val |-> {}]
    /\ UNCHANGED <<call, nconds, folder, saved, prev, adiag, afolder, asaved>>

\* a folder written by save_to_folder of the older theorydd.theory_bdd
\* module, which has the same layout
LegacySaveToFolder ==
    /\ pc = "none"
    /\ folder.kind = "none"
    /\ \E phi \in LifePool, seed \in Seeds :
        \E o \in extract(get_normalized(phi), "total") :
            folder' = tdd_save_to_folder(Legacy_TheoryBDD_init(phi, o.lemmas, seed))
    /\ last' = [op |-> "legacy_save_to_folder", exc |-> "none", val |-> {}]
    /\ UNCHANGED <<pc, tdd, call, nconds, saved, prev, adiag, afolder, asaved>>

AbstractionClasses == {"AbstractionBDD", "AbstractionSDD"}

\* AbstractionBDD(phi) / AbstractionSDD(phi) on the phi of the T-diagram
NewAbstractionDD ==
    /\ pc = "built"
    /\ call.mode \in {"computed", "tlemmas"}
    /\ nconds = 0
    /\ folder.kind = "none"
    /\ adiag.cls = "none"
    /\ afolder.kind = "none"
    /\ \E acls \in AbstractionClasses :
        LET r == IF acls = "AbstractionBDD" THEN AbstractionBDD_init(call.phi, call.seed)
                 ELSE AbstractionSDD_init(call.phi, call.seed)
        IN /\ adiag' = IF r.exc = "none" THEN r.val ELSE NoObject
           /\ last' = [op |-> acls, exc |-> r.exc, val |-> {}]
    /\ UNCHANGED <<pc, tdd, call, nconds, folder, saved, prev, afolder, asaved>>

AQuery(op, r) ==
    /\ adiag.cls # "none"
    /\ last' = [op |-> op, exc |-> r.exc, val |-> r.val]
    /\ UNCHANGED <<pc, tdd, call, nconds, folder, saved, prev, adiag, afolder, asaved>>

AbstractionLen == AQuery("abstraction_len", abstraction_len(adiag))

AbstractionCountModels ==
    LET c == abstraction_count_models(adiag)
    IN AQuery("abstraction_count_models", [exc |-> c.exc, val |-> <<c.num, c.den>>])

\* adiag.save_to_folder(path)
AbstractionSaveToFolder ==
    /\ adiag.cls # "none"
    /\ afolder.kind = "none"
    /\ LET r == abstraction_save_to_folder(adiag)
       IN /\ afolder' = IF r.exc = "none" THEN r.val ELSE afolder
          /\ asaved' = IF r.exc = "none"
                       THEN [known |-> TRUE, nodes |-> abstraction_len(adiag).val,
                             models |-> abstraction_count_models(adiag)]
                       ELSE asaved
          /\ last' = [op |-> "abstraction_save_to_folder", exc |-> r.exc, val |-> {}]
    /\ UNCHANGED <<pc, tdd, call, nconds, folder, saved, prev, adiag>>

\* abstraction_bdd_load_from_folder(path)
AbstractionLoadFromFolder ==
    /\ afolder.kind = "abstraction_bdd"
    /\ adiag' = AbstractionBDD_load_from_folder(afolder)
    /\ last' = [op |-> "abstraction_load_from_folder", exc |-> "none", val |-> {}]
    /\ UNCHANGED <<pc, tdd, call, nconds, folder, saved, prev, afolder, asaved>>

\* construction over all the formulas, the queries, the rebuild from a
\* lemma file and the abstraction diagrams
Next ==
    \/ ConstructComputed
    \/ ConstructWithLemmas
    \/ ConstructFromLemmaFile
    \/ CountNodes
    \/ CountModels
    \/ Pick
    \/ PickAll
    \/ PickAllIter
    \/ NewAbstractionDD
    \/ AbstractionLen
    \/ AbstractionCountModels
    \/ AbstractionSaveToFolder
    \/ AbstractionLoadFromFolder

Spec == Init /\ [][Next]_vars

\* the life of one T-diagram: construction, conditioning, saving, loading
\* and the queries in any order
ConstructForLife == ConstructFrom(LifePool)

NextLife ==
    \/ ConstructForLife
    \/ LegacySaveToFolder
    \/ Condition
    \/ SaveToFolder
    \/ LoadFromFolder
    \/ CountNodes
    \/ CountModels
    \/ Pick
    \/ PickAll
    \/ PickAllIter

SpecLife == Init /\ [][NextLife]_vars

\* ------------------------------------------ the checks of a constructor
\* theorydd.constants
VALID_VTREE == {"left", "right", "balanced", "vertical", "random"}
VALID_SOLVER == {"partial", "total", "extended_partial", "tabular_total", "tabular_partial"}
VALID_LDD_THEORY == {"TVPI", "TVPIZ", "UTVPIZ", "BOX", "BOXZ"}

\* a statement of a constructor that can reject an argument, and one that
\* calls the solver's check_all_sat or creates the engine manager
CheckStep(input, exc) == [kind |-> "check", input |-> input, exc |-> exc]
EventStep(event) == [kind |-> "event", event |-> event]

\* TheorySDD.__init__ with the vtree type looked at after the manager exists
TheorySDD_init_steps_late ==
    <<CheckStep("solver", "InvalidSolverException"),
      CheckStep("phi", "UnsupportedNodeException"),
      EventStep("check_all_sat"),
      EventStep("manager"),
      CheckStep("vtree_type", "InvalidVTreeException")>>

\* TheoryBDD.__init__: _get_solver, _normalize_input, _load_lemmas, then
\* cudd_bdd.BDD()
TheoryBDD_init_steps ==
    <<CheckStep("solver", "InvalidSolverException"),
      CheckStep("phi", "UnsupportedNodeException"),
      EventStep("check_all_sat"),
      EventStep("manager")>>

\* TheorySDD.__init__: VALID_VTREE, _get_solver, _normalize_input,
\* _load_lemmas, then SddManager.from_vtree
TheorySDD_init_steps ==
    <<CheckStep("vtree_type", "InvalidVTreeException"),
      CheckStep("solver", "InvalidSolverException"),
      CheckStep("phi", "UnsupportedNodeException"),
      EventStep("check_all_sat"),
      EventStep("manager")>>

\* LDD.__init__: the theory, then _build with _ldd.LDD(...)
LDD_init_steps ==
    <<CheckStep("theory", "InvalidLDDTheoryException"),
      EventStep("manager")>>

InitSteps(cls) ==
    IF cls = "TheoryBDD" THEN TheoryBDD_init_steps
    ELSE IF cls = "TheorySDD" THEN TheorySDD_init_steps
    ELSE LDD_init_steps

\* the argument passes the check: VALID_VTREE, get_solver's is_valid_solver,
\* the LDD theory names, NormalizerWalker.walk_forall / walk_exists
Accepted(input, args) ==
    IF input = "vtree_type" THEN args.vtree_type \in VALID_VTREE
    ELSE IF input = "solver" THEN args.solver \in VALID_SOLVER
    ELSE IF input = "theory" THEN args.theory \in VALID_LDD_THEORY
    ELSE ~args.quantified

\* the constructor's statements run in order up to the first rejection: the
\* exception and the solver and engine events that happened before it
RECURSIVE RunInit(_, _, _, _)
RunInit(steps, k, args, events) ==
    IF k > Len(steps) THEN [exc |-> "none", events |-> events]
    ELSE IF steps[k].kind = "check"
    THEN IF Accepted(steps[k].input, args)
         THEN RunInit(steps, k + 1, args, events)
         ELSE [exc |-> steps[k].exc, events |-> events]
    ELSE RunInit(steps, k + 1, args, Append(events, steps[k].event))

\* the arguments a caller can pass to the constructor of the class
InitArgs(cls) ==
    IF cls = "LDD"
    THEN {[solver |-> "total", vtree_type |-> DefaultVtree, theory |-> t, quantified |-> FALSE] :
            t \in {"TVPI", "BOX", "LRA"}}
    ELSE {[solver |-> sv, vtree_type |-> vt, theory |-> "TVPI", quantified |-> q] :
            sv \in Strategies \cup {"z3"},
            vt \in IF cls = "TheorySDD" THEN {"left", "right", "balanced", "circular"}
                   ELSE {DefaultVtree},
            q \in BOOLEAN}

\* TheoryBDD(phi, solver=...), TheorySDD(phi, solver=..., vtree_type=...) and
\* LDD(phi, theory) with arguments the constructor accepts or rejects; the
\* LDD that is built is not modelled
ConstructChecked ==
    /\ pc = "none"
    /\ \E cls \in Classes \cup {"LDD"}, phi \in LifePool, seed \in Seeds :
        \E args \in InitArgs(cls) :
            LET run == RunInit(InitSteps(cls), 1, args, <<>>)
                computed == [mode |-> "checked", cls |-> cls, phi |-> phi, args |-> args,
                             seed |-> seed]
            IN IF run.exc # "none" \/ cls = "LDD"
               THEN /\ pc' = IF run.exc # "none" THEN "raised" ELSE "ldd"
                    /\ tdd' = NoObject
                    /\ call' = computed
                    /\ last' = [op |-> cls, exc |-> run.exc, val |-> {}, events |-> run.events]
               ELSE \E o \in extract(_normalize_input(phi), args.solver) :
                       LET src == [mode |-> "computed", tlemmas |-> <<>>, file |-> save_phi(top),
                                   outcome |-> o, sat_result |-> None]
                           r == IF cls = "TheoryBDD" THEN TheoryBDD_init(phi, src, seed)
                                ELSE TheorySDD_init(phi, src, seed, args.vtree_type)
                       IN /\ pc' = IF r.exc = "none" THEN "built" ELSE "raised"
                          /\ tdd' = IF r.exc = "none" THEN r.val ELSE NoObject
                          /\ call' = computed
                          /\ last' = [op |-> cls, exc |-> r.exc, val |-> {}, events |-> run.events]
    /\ UNCHANGED <<nconds, folder, saved, prev, adiag, afolder, asaved>>

NextChecked == ConstructChecked

SpecChecked == Init /\ [][NextChecked]_vars

\* tbdd_load_from_folder(path) / tsdd_load_from_folder(path) of a saved
\* folder that lost some of its files, or of a path that is no folder
LoadFromDamagedFolder ==
    /\ folder.kind \in {"tbdd", "tsdd"}
    /\ adiag.cls = "none"
    /\ \E present \in DamagedFolders(folder.kind) :
        \E r \in RunLoad(LoadSteps(folder.kind), 1, present, {}, FALSE) :
            last' = [op |-> "load_from_damaged_folder", exc |-> r.exc, val |-> r,
                     present |-> present]
    /\ UNCHANGED <<pc, tdd, call, nconds, folder, saved, prev, adiag, afolder, asaved>>

NextLoad ==
    \/ ConstructForLife
    \/ SaveToFolder
    \/ LoadFromFolder
    \/ LoadFromDamagedFolder

SpecLoad == Init /\ [][NextLoad]_vars

\* the life of a diagram with every query and an engine that can run out of
\* memory while counting
NextFrame ==
    \/ ConstructForLife
    \/ LegacySaveToFolder
    \/ Condition
    \/ SaveToFolder
    \/ LoadFromFolder
    \/ CountNodes
    \/ CountVertices
    \/ CountModelsEngine
    \/ IsSat
    \/ IsValid
    \/ Pick
    \/ PickAll
    \/ PickAllIter

SpecFrame == Init /\ [][NextFrame]_vars

\* formula.get_atom_partitioning applied to the atoms of one formula
InitPart ==
    /\ pc = "input"
    /\ call \in {[mode |-> "partition", atoms |-> atoms] : atoms \in PartInputs}
    /\ tdd = NoObject
    /\ nconds = 0
    /\ folder = NoFolder
    /\ saved = NoCounts
    /\ prev = NoCounts
    /\ adiag = NoObject
    /\ afolder = NoFolder
    /\ asaved = NoCounts
    /\ last = NoResult

GetAtomPartitioning ==
    /\ pc = "input"
    /\ pc' = "done"
    /\ last' = Result("get_atom_partitioning", get_atom_partitioning(call.atoms))
    /\ UNCHANGED <<tdd, call, nconds, folder, saved, prev, adiag, afolder, asaved>>

NextPart == GetAtomPartitioning

SpecPart == InitPart /\ [][NextPart]_vars

\* one SequentialStringGenerator: _string_serial, the strings returned since
\* it was made or reset, and the resets made
InitGen ==
    /\ pc = "generator"
    /\ call = [mode |-> "generator", _string_serial |-> 0, returned |-> <<>>, resets |-> 0]
    /\ tdd = NoObject
    /\ nconds = 0
    /\ folder = NoFolder
    /\ saved = NoCounts
    /\ prev = NoCounts
    /\ adiag = NoObject
    /\ afolder = NoFolder
    /\ asaved = NoCounts
    /\ last = NoResult

\* SequentialStringGenerator.next_string
NextString ==
    /\ pc = "generator"
    /\ call._string_serial < MaxSerial
    /\ LET out == next_string(call._string_serial)
       IN /\ call' = [call EXCEPT !._string_serial = @ + 1, !.returned = Append(@, out)]
          /\ last' = Result("next_string", Returned(out))
    /\ UNCHANGED <<pc, tdd, nconds, folder, saved, prev, adiag, afolder, asaved>>

\* SequentialStringGenerator.reset
ResetGenerator ==
    /\ pc = "generator"
    /\ call.resets < MaxResets
    /\ call' = [call EXCEPT !._string_serial = 0, !.returned = <<>>, !.resets = @ + 1]
    /\ last' = Result("reset", Returned({}))
    /\ UNCHANGED <<pc, tdd, nconds, folder, saved, prev, adiag, afolder, asaved>>

NextGen == NextString \/ ResetGenerator

SpecGen == InitGen /\ [][NextGen]_vars

\* the lists without repetition of atoms of phi a caller can pass as use_ordering
OrderingsOf(phi) ==
    UNION {{o \in [1..n -> phi.atoms] : \A i, j \in 1..n : o[i] = o[j] => i = j} :
             n \in 0..Cardinality(phi.atoms)}

\* TheoryBDD(phi, solver, use_ordering=...), with or without an ordering
ConstructWithOrdering ==
    /\ pc = "none"
    /\ \E phi \in PhiPool, solver \in Strategies, seed \in Seeds :
        \E o \in extract(_normalize_input(phi), solver) :
            \E use_ordering \in {None} \cup {{l} : l \in OrderingsOf(phi)} :
                LET src == [mode |-> "computed", tlemmas |-> <<>>, file |-> save_phi(top),
                            outcome |-> o, sat_result |-> None]
                    r == TheoryBDD_construct(phi, src, seed, use_ordering)
                IN /\ pc' = IF r.exc = "none" THEN "built" ELSE "raised"
                   /\ tdd' = IF r.exc = "none" THEN r.val ELSE NoObject
                   /\ call' = [mode |-> "ordering", cls |-> "TheoryBDD", phi |-> phi,
                               solver |-> solver, lemmas |-> o.lemmas, verdict |-> o.sat,
                               sat_result |-> None, seed |-> seed,
                               use_ordering |-> use_ordering]
                   /\ last' = [op |-> "TheoryBDD", exc |-> r.exc, val |-> {}]
    /\ UNCHANGED <<nconds, folder, saved, prev, adiag, afolder, asaved>>

NextOrder == ConstructWithOrdering

SpecOrder == Init /\ [][NextOrder]_vars

\* ------------------------------------------------- the dDNNF compilers
\* the file system: the folders that exist, each with its files
Mkdir(fs, name) ==
    IF \E d \in fs : d.name = name THEN fs ELSE fs \cup {[name |-> name, files |-> {}]}

WriteFiles(fs, name, files) ==
    {IF d.name = name THEN [d EXCEPT !.files = @ \cup files] ELSE d : d \in Mkdir(fs, name)}

\* DDNNFCompiler._choose_tmp_folder: a random name when save_path is None
_choose_tmp_folder(save_path, rnd) ==
    IF save_path = None THEN [tmp |-> TRUE, id |-> rnd] ELSE [tmp |-> FALSE, id |-> 0]

\* self._clean_tmp_folder(tmp_folder): neither DDNNFCompiler nor C2DCompiler
\* nor D4Compiler defines the method, the attribute lookup raises
_clean_tmp_folder(fs, tmp_folder) == [exc |-> "AttributeError", fs |-> fs]

\* the exit statuses of the compiler run under timeout(1)
ExitStatuses == {0, 1, 124}

\* C2DCompiler.compile_dDNNF / D4Compiler.compile_dDNNF: the exception, the
\* formula handed back (or None) and the file system afterwards
compile_dDNNF(fs, compiler, save_path, back_to_fnode, status, rnd) ==
    LET tmp_folder == _choose_tmp_folder(save_path, rnd)
        inputs == {"dimacs.cnf", "mapping/mapping.json"}
                  \cup (IF compiler = "c2d" THEN {"quantification.exist"}
                        ELSE {"mapping/important_labels.json"})
        nnf == IF compiler = "c2d" THEN "dimacs.cnf.nnf" ELSE "compilation_output.nnf"
        written == WriteFiles(fs, tmp_folder, inputs)
        compiled == IF status = 0 THEN WriteFiles(written, tmp_folder, {nnf}) ELSE written
        cleaned == IF save_path = None THEN _clean_tmp_folder(compiled, tmp_folder)
                   ELSE [exc |-> "none", fs |-> compiled]
    IN IF status # 0
       THEN IF cleaned.exc # "none" THEN [exc |-> cleaned.exc, formula |-> FALSE, fs |-> cleaned.fs]
            ELSE [exc |-> "TimeoutError", formula |-> FALSE, fs |-> cleaned.fs]
       ELSE IF ~back_to_fnode THEN [exc |-> "none", formula |-> FALSE, fs |-> compiled]
       ELSE IF cleaned.exc # "none" THEN [exc |-> cleaned.exc, formula |-> FALSE, fs |-> cleaned.fs]
       ELSE [exc |-> "none", formula |-> TRUE, fs |-> cleaned.fs]

InitCompile ==
    /\ pc = "compiler"
    /\ call = [mode |-> "compile", runs |-> 0]
    /\ tdd = NoObject
    /\ nconds = 0
    /\ folder = [kind |-> "fs", dirs |-> {}]
    /\ saved = NoCounts
    /\ prev = NoCounts
    /\ adiag = NoObject
    /\ afolder = NoFolder
    /\ asaved = NoCounts
    /\ last = NoResult

\* compiler.compile_dDNNF(phi, save_path=..., back_to_fnode=...) with the
\* compiler process ending with some exit status
CompileDDNNF ==
    /\ pc = "compiler"
    /\ call.runs < MaxCompilations
    /\ \E compiler \in {"c2d", "d4"}, save_path \in {None, {"out"}}, back_to_fnode \in BOOLEAN,
          status \in ExitStatuses, rnd \in 1..MaxRandom :
        LET r == compile_dDNNF(folder.dirs, compiler, save_path, back_to_fnode, status, rnd)
        IN /\ folder' = [folder EXCEPT !.dirs = r.fs]
           /\ call' = [mode |-> "compile", runs |-> call.runs + 1, compiler |-> compiler,
                       save_path |-> save_path, back_to_fnode |-> back_to_fnode,
                       status |-> status]
           /\ last' = [op |-> "compile_dDNNF", exc |-> r.exc, val |-> r.formula]
    /\ UNCHANGED <<pc, tdd, nconds, saved, prev, adiag, afolder, asaved>>

NextCompile == CompileDDNNF

SpecCompile == InitCompile /\ [][NextCompile]_vars

\* ------------------------------------------------- solvers/tabular.py
\* the files of the working directory: temp_phi.smt and the lemma files
\* tlemma_<n>.smt2 the solver process dumps
PhiFile(phi) == [name |-> "temp_phi.smt", n |-> 0, content |-> save_phi(phi)]
LemmaFile(n, lemma) == [name |-> "tlemma.smt2", n |-> n, content |-> save_phi(lemma)]

\* tabular._clear_tlemmas: every file matching TLEMMAS_FILE_REGEX is removed
_clear_tlemmas(files) == {f \in files : f.name # "tlemma.smt2"}

\* the ways the solver process can end on phi: exit status 0 with all its
\* lemma files and the model count on its output, or a non-zero status (1
\* for an error, 124 from timeout(1), another for a crash) after some of the
\* lemma files were written
TabularRuns(phi, is_partial) ==
    LET outcomes == IF is_partial THEN PartialOutcomes(phi) ELSE TotalOutcomes(phi)
    IN {[status |-> 0, lemmas |-> o.lemmas, sat |-> o.sat] : o \in outcomes}
       \cup UNION {{[status |-> st, lemmas |-> SubSeq(o.lemmas, 1, k), sat |-> o.sat] :
                      st \in {1, 124, 139}, k \in 0..Len(o.lemmas)} : o \in outcomes}

\* the lemma files in the order os.listdir() hands them over
ListLemmaFiles(files, seed) ==
    LET ns == {f.n : f \in {g \in files : g.name = "tlemma.smt2"}}
        RECURSIVE Asc(_)
        Asc(S) == IF S = {} THEN <<>>
                  ELSE LET m == CHOOSE x \in S : \A y \in S : x <= y
                       IN <<CHOOSE f \in files : f.name = "tlemma.smt2" /\ f.n = m>> \o Asc(S \ {m})
    IN IF seed = "asc" THEN Asc(ns) ELSE Reverse(Asc(ns))

\* TabularSMTSolver.check_all_sat: the exception (SystemExit from sys.exit),
\* the verdict, the lemmas read back, the files left in the directory and
\* the number of times the solver process was started
Tabular_check_all_sat(files, phi, run, seed) ==
    LET normal_phi == get_normalized(phi)
        saved_phi == _clear_tlemmas(files) \cup {PhiFile(normal_phi)}
        dumped == saved_phi \cup {LemmaFile(i, run.lemmas[i]) : i \in DOMAIN run.lemmas}
        listed == ListLemmaFiles(dumped, seed)
    IN IF run.status # 0
       THEN [exc |-> "SystemExit", code |-> run.status, sat |-> UNSAT, tlemmas |-> <<>>,
             files |-> _clear_tlemmas(dumped), started |-> 1]
       ELSE [exc |-> "none", code |-> 0, sat |-> run.sat,
             tlemmas |-> [i \in DOMAIN listed |-> get_normalized(read_phi(listed[i].content))],
             files |-> _clear_tlemmas(dumped) \ {PhiFile(normal_phi)}, started |-> 1]

InitTabular ==
    /\ pc = "tabular"
    /\ call = [mode |-> "tabular", runs |-> 0]
    /\ tdd = NoObject
    /\ nconds = 0
    /\ folder = [kind |-> "cwd", files |-> {}]
    /\ saved = NoCounts
    /\ prev = NoCounts
    /\ adiag = NoObject
    /\ afolder = NoFolder
    /\ asaved = NoCounts
    /\ last = NoResult

\* TabularSMTSolver(is_partial).check_all_sat(phi)
TabularCheckAllSat ==
    /\ pc = "tabular"
    /\ call.runs < MaxSolverRuns
    /\ \E phi \in LifePool, is_partial \in BOOLEAN, seed \in Seeds :
        \E run \in TabularRuns(get_normalized(phi), is_partial) :
            LET r == Tabular_check_all_sat(folder.files, phi, run, seed)
            IN /\ folder' = [folder EXCEPT !.files = r.files]
               /\ call' = [mode |-> "tabular", runs |-> call.runs + 1, phi |-> phi,
                           is_partial |-> is_partial, status |-> run.status,
                           dumped |-> Len(run.lemmas)]
               /\ last' = [op |-> "check_all_sat", exc |-> r.exc,
                           val |-> [code |-> r.code, sat |-> r.sat, tlemmas |-> r.tlemmas],
                           started |-> r.started]
    /\ UNCHANGED <<pc, tdd, nconds, saved, prev, adiag, afolder, asaved>>

NextTabular == TabularCheckAllSat

SpecTabular == InitTabular /\ [][NextTabular]_vars

\* ------------------------------------------------- solvers/solver.py
\* the atom of phi as get_atom_partitioning sees it: its free variables are
\* x for (x < c), and the symbol itself for a Boolean symbol
PartAtom(a) == [name |-> a, vars |-> IF IsTheoryAtom(a) THEN <<"x">> ELSE <<"b1">>]

\* formula.get_true_given_atoms: the conjunction of (atom | ~atom)
get_true_given_atoms(atoms) ==
    IF atoms = {} THEN top
    ELSE LET listed == SortAtoms(atoms)
         IN big_and([i \in DOMAIN listed |->
                       [atoms |-> {listed[i]}, models |-> {{}, {listed[i]}}]])

\* the enumerators enumerate_true can run on: the MathSAT ones, and the
\* tabular one, whose verdict is UNSAT when no model count can be read
\* from the output of the process
Enumerators == Strategies \cup {"tabular_total"}

EnumeratorOutcomes(solver, phi) ==
    IF solver = "tabular_total"
    THEN TotalOutcomes(phi) \cup {[o EXCEPT !.sat = UNSAT] : o \in TotalOutcomes(phi)}
    ELSE check_all_sat(solver, phi)

\* one pass of the loop that goes on after an UNSAT partition whatever
\* stop_at_unsat says
enumerate_true_pass_nonstop(st, o, stop_at_unsat) ==
    [st EXCEPT !.k = @ + 1,
               !.checked = Append(@, [phi |-> get_true_given_atoms(st.partitions[st.k]),
                                      verdict |-> o.sat, lemmas |-> o.lemmas]),
               !.all_lemmas = @ \cup Range(o.lemmas),
               !.tlemmas = o.lemmas,
               !.complessive_sat_result = IF o.sat = UNSAT THEN UNSAT ELSE @]

\* one pass of the loop of SMTEnumerator.enumerate_true over partition k: o
\* is what check_all_sat did with the partition's formula
enumerate_true_pass(st, o, stop_at_unsat) ==
    [st EXCEPT !.k = @ + 1,
               !.checked = Append(@, [phi |-> get_true_given_atoms(st.partitions[st.k]),
                                      verdict |-> o.sat, lemmas |-> o.lemmas]),
               !.all_lemmas = @ \cup Range(o.lemmas),
               !.tlemmas = o.lemmas,
               !.complessive_sat_result = IF o.sat = UNSAT THEN UNSAT ELSE @,
               !.returned = IF o.sat = UNSAT /\ stop_at_unsat THEN {UNSAT} ELSE @]

InitEnum ==
    /\ pc = "idle"
    /\ call = [mode |-> "enumerate_true"]
    /\ tdd = NoObject
    /\ nconds = 0
    /\ folder = NoFolder
    /\ saved = NoCounts
    /\ prev = NoCounts
    /\ adiag = NoObject
    /\ afolder = NoFolder
    /\ asaved = NoCounts
    /\ last = NoResult

\* solver.enumerate_true(phi, stop_at_unsat) up to the loop: phi is
\* normalized and its atoms are partitioned
EnumerateTrueEnter ==
    /\ pc = "idle"
    /\ \E phi \in PhiPool, solver \in Enumerators, stop_at_unsat \in BOOLEAN, seed \in Seeds :
        LET normal == get_normalized(phi)
            listed == get_atoms(normal, seed)
            parts == get_atom_partitioning([i \in DOMAIN listed |-> PartAtom(listed[i])])
        IN IF parts.exc # "none"
           THEN /\ pc' = "returned"
                /\ call' = [mode |-> "enumerate_true", phi |-> phi, solver |-> solver,
                            stop_at_unsat |-> stop_at_unsat, partitions |-> <<>>, k |-> 1,
                            checked |-> <<>>, all_lemmas |-> {}, tlemmas |-> <<>>,
                            complessive_sat_result |-> SAT, returned |-> None]
                /\ last' = [op |-> "enumerate_true", exc |-> parts.exc, val |-> {}]
           ELSE /\ pc' = "loop"
                /\ call' = [mode |-> "enumerate_true", phi |-> phi, solver |-> solver,
                            stop_at_unsat |-> stop_at_unsat,
                            partitions |-> [i \in DOMAIN parts.val |->
                                              {a.name : a \in parts.val[i]}],
                            k |-> 1, checked |-> <<>>, all_lemmas |-> {}, tlemmas |-> <<>>,
                            complessive_sat_result |-> SAT, returned |-> None]
                /\ last' = [op |-> "enumerate_true", exc |-> "running", val |-> {}]
    /\ UNCHANGED <<tdd, nconds, folder, saved, prev, adiag, afolder, asaved>>

\* one pass of the loop: check_all_sat on the formula of the next partition
EnumerateTruePass ==
    /\ pc = "loop"
    /\ call.k <= Len(call.partitions)
    /\ \E o \in EnumeratorOutcomes(call.solver, get_true_given_atoms(call.partitions[call.k])) :
        LET st == enumerate_true_pass(call, o, call.stop_at_unsat)
        IN /\ call' = st
           /\ pc' = IF st.returned # None THEN "returned" ELSE "loop"
           /\ last' = IF st.returned # None
                      THEN [op |-> "enumerate_true", exc |-> "none", val |-> st.returned]
                      ELSE last
    /\ UNCHANGED <<tdd, nconds, folder, saved, prev, adiag, afolder, asaved>>

\* after the last partition: the lemmas are stored and the result returned
EnumerateTrueReturn ==
    /\ pc = "loop"
    /\ call.k > Len(call.partitions)
    /\ pc' = "returned"
    /\ call' = [call EXCEPT !.tlemmas = SortLemmas(call.all_lemmas),
                            !.returned = {call.complessive_sat_result}]
    /\ last' = [op |-> "enumerate_true", exc |-> "none", val |-> {call.complessive_sat_result}]
    /\ UNCHANGED <<tdd, nconds, folder, saved, prev, adiag, afolder, asaved>>

NextEnum ==
    \/ EnumerateTrueEnter
    \/ EnumerateTruePass
    \/ EnumerateTrueReturn

SpecEnum == InitEnum /\ [][NextEnum]_vars

\* ------------------------------------------ find_qvars on phi and lemmas
\* find_qvars(phi, phi & lemmas) as the constructors call it: on the
\* normalized phi and the conjunction with the normalized lemmas
FindQvars ==
    /\ pc \in {"none", "qvars"}
    /\ \E phi \in PhiPool, lemmas \in LemmaLists, seed \in Seeds :
        LET normal == _normalize_input(phi)
            tlemmas == [i \in DOMAIN lemmas |-> get_normalized(lemmas[i])]
            phi_and_lemmas == get_phi_and_lemmas(normal, tlemmas)
        IN /\ call' = [mode |-> "find_qvars", phi |-> phi, lemmas |-> lemmas, seed |-> seed]
           /\ last' = [op |-> "find_qvars", exc |-> "none",
                       val |-> find_qvars(normal, phi_and_lemmas, seed)]
    /\ pc' = "qvars"
    /\ UNCHANGED <<tdd, nconds, folder, saved, prev, adiag, afolder, asaved>>

NextQvars ==
    \/ FindQvars
    \/ ConstructForLife

SpecQvars == Init /\ [][NextQvars]_vars

\* ------------------------------------------ the three lemma sources
\* a resolution of the lemma source that looks at load_lemmas before tlemmas
_load_lemmas_file_first(phi, tlemmas, load_lemmas, sat_result, outcome) ==
    LET mode == IF load_lemmas # None THEN "load_lemmas"
                ELSE IF tlemmas # None THEN "tlemmas" ELSE "computed"
        loaded == IF mode = "tlemmas" THEN CHOOSE l \in tlemmas : TRUE
                  ELSE IF mode = "load_lemmas" THEN <<read_phi(CHOOSE f \in load_lemmas : TRUE)>>
                  ELSE outcome.lemmas
    IN [mode |-> mode,
        events |-> IF mode = "load_lemmas" THEN <<"read_phi">>
                   ELSE IF mode = "computed" THEN <<"extract">> ELSE <<>>,
        tlemmas |-> Pad([i \in DOMAIN loaded |-> get_normalized(loaded[i])]),
        sat_result |-> IF mode = "computed" THEN {outcome.sat} ELSE sat_result]

\* TheoryDD._load_lemmas with the arguments as the caller gave them: tlemmas
\* and load_lemmas are None or given, outcome is what extract returns when
\* it is called; events are the calls made to read_phi and extract
_load_lemmas_from(phi, tlemmas, load_lemmas, sat_result, outcome) ==
    LET mode == IF tlemmas # None THEN "tlemmas"
                ELSE IF load_lemmas # None THEN "load_lemmas" ELSE "computed"
        loaded == IF mode = "tlemmas" THEN CHOOSE l \in tlemmas : TRUE
                  ELSE IF mode = "load_lemmas" THEN <<read_phi(CHOOSE f \in load_lemmas : TRUE)>>
                  ELSE outcome.lemmas
    IN [mode |-> mode,
        events |-> IF mode = "load_lemmas" THEN <<"read_phi">>
                   ELSE IF mode = "computed" THEN <<"extract">> ELSE <<>>,
        tlemmas |-> Pad([i \in DOMAIN loaded |-> get_normalized(loaded[i])]),
        sat_result |-> IF mode = "computed" THEN {outcome.sat} ELSE sat_result]

\* the lemma lists and lemma files a caller supplies
SuppliedLemmas == {<<>>} \cup {<<l>> : l \in LemmaPool}
SuppliedFiles == {save_phi(top)} \cup {save_phi(l) : l \in LemmaPool}

\* TheoryBDD(phi, solver, tlemmas, load_lemmas, sat_result) and the T-SDD
\* constructor with any combination of the three arguments
ConstructWithSources ==
    /\ pc = "none"
    /\ folder.kind = "none"
    /\ \E cls \in Classes, phi \in LifePool, solver \in Strategies, seed \in Seeds :
        \E tlemmas \in {None} \cup {{l} : l \in SuppliedLemmas},
           load_lemmas \in {None} \cup {{f} : f \in SuppliedFiles},
           sat_result \in {None, {SAT}, {UNSAT}} :
            \E o \in extract(_normalize_input(phi), solver) :
                LET ll == _load_lemmas_from(_normalize_input(phi), tlemmas, load_lemmas,
                                            sat_result, o)
                    r == tdd_init(cls, phi,
                                  [mode |-> ll.mode,
                                   tlemmas |-> IF tlemmas # None
                                               THEN CHOOSE l \in tlemmas : TRUE ELSE <<>>,
                                   file |-> IF load_lemmas # None
                                            THEN CHOOSE f \in load_lemmas : TRUE
                                            ELSE save_phi(top),
                                   outcome |-> o, sat_result |-> sat_result],
                                  seed)
                IN /\ pc' = IF r.exc = "none" THEN "built" ELSE "raised"
                   /\ tdd' = IF r.exc = "none" THEN r.val ELSE NoObject
                   /\ call' = [mode |-> "sources", cls |-> cls, phi |-> phi, solver |-> solver,
                               tlemmas |-> tlemmas, load_lemmas |-> load_lemmas,
                               sat_result |-> sat_result, outcome |-> o, seed |-> seed,
                               events |-> ll.events, used |-> ll.tlemmas,
                               builder |-> IF ll.sat_result = None \/ ll.sat_result = {SAT}
                                           THEN "_build" ELSE "_build_unsat"]
                   /\ last' = [op |-> cls, exc |-> r.exc, val |-> {}]
    /\ UNCHANGED <<nconds, folder, saved, prev, adiag, afolder, asaved>>

NextSources == ConstructWithSources

SpecSources == Init /\ [][NextSources]_vars

\* ------------------------- solvers/mathsat_partial_extended.py, by steps
\* a partial assignment: the atoms it assigns (on) and those it makes true
CubeFormula(c) == [atoms |-> c.on, models |-> {c.pos}]

\* the total assignments to the atoms of phi that extend the partial one
CubeExtent(phi, c) == {m \in SUBSET phi.atoms : m \cap c.on = c.pos}

\* the partial assignments that satisfy phi and have a model in the theory
PartialModelsOf(phi) ==
    {c \in [on : SUBSET phi.atoms, pos : SUBSET phi.atoms] :
        /\ c.pos \subseteq c.on
        /\ CubeExtent(phi, c) \subseteq phi.models
        /\ \E m \in CubeExtent(phi, c) : TConsistent(m, phi.atoms)}

RECURSIVE ListCubes(_)
ListCubes(S) ==
    IF S = {} THEN <<>>
    ELSE LET x == CHOOSE y \in S : TRUE IN <<x>> \o ListCubes(S \ {x})

\* what msat_all_sat can hand to the callback with minimized models:
\* disjoint partial assignments that cover the theory-consistent models
PartialPasses(phi) ==
    {ListCubes(C) : C \in {D \in SUBSET PartialModelsOf(phi) :
        /\ \A c1, c2 \in D : c1 # c2 => CubeExtent(phi, c1) \cap CubeExtent(phi, c2) = {}
        /\ TModels(phi) \subseteq UNION {CubeExtent(phi, c) : c \in D}}}

\* the assertion stack of a pysmt solver: a list of frames of assertions
reset_assertions == <<<<>>>>
add_assertion(stack, f) == [stack EXCEPT ![Len(stack)] = Append(@, f)]
push(stack) == Append(stack, <<>>)
pop_kept(stack) == stack
pop(stack) == SubSeq(stack, 1, Len(stack) - 1)

InitExtended ==
    /\ pc = "idle"
    /\ call = [mode |-> "extended"]
    /\ tdd = NoObject
    /\ nconds = 0
    /\ folder = NoFolder
    /\ saved = NoCounts
    /\ prev = NoCounts
    /\ adiag = NoObject
    /\ afolder = NoFolder
    /\ asaved = NoCounts
    /\ last = NoResult

\* check_all_sat up to the loop: both solvers are reset, the partial pass
\* is made, its lemmas are stored; UNSAT when it found no assignment
ExtendedPartialPass ==
    /\ pc = "idle"
    /\ \E phi_in \in PhiPool :
        LET phi == get_normalized(phi_in)
        IN \E partial_models \in PartialPasses(phi), p \in PartialOutcomes(phi) :
            LET st == [mode |-> "extended", phi |-> phi_in, partial_models |-> partial_models,
                       partial_lemmas |-> p.lemmas, _tlemmas |-> p.lemmas, _models |-> {},
                       k |-> 1, branches |-> <<>>, before |-> reset_assertions,
                       stack |-> reset_assertions]
            IN IF Len(partial_models) = 0
               THEN /\ pc' = "returned"
                    /\ call' = st
                    /\ last' = [op |-> "check_all_sat", exc |-> "none", val |-> {UNSAT}]
               ELSE /\ pc' = "branch"
                    /\ call' = [st EXCEPT !.stack = add_assertion(reset_assertions, phi),
                                          !.before = add_assertion(reset_assertions, phi)]
                    /\ last' = [op |-> "check_all_sat", exc |-> "running", val |-> {}]
    /\ UNCHANGED <<tdd, nconds, folder, saved, prev, adiag, afolder, asaved>>

\* the head of one pass of the loop: push, assert the partial assignment
\* and the lemmas found so far
ExtendedPush ==
    /\ pc = "branch"
    /\ call.k <= Len(call.partial_models)
    /\ pc' = "pushed"
    /\ call' = [call EXCEPT
                  !.before = call.stack,
                  !.stack = add_assertion(
                                add_assertion(push(call.stack),
                                              CubeFormula(call.partial_models[call.k])),
                                big_and(call._tlemmas))]
    /\ UNCHANGED <<tdd, nconds, folder, saved, prev, adiag, afolder, asaved, last>>

\* the total enumeration under the assertions of the stack: its models and
\* its lemmas are added to those of the call
ExtendedTotalPass ==
    /\ pc = "pushed"
    /\ LET phi == get_normalized(call.phi)
           m == call.partial_models[call.k]
           branch == [atoms |-> phi.atoms,
                      models |-> phi.models \cap CubeExtent(phi, m)]
       IN \E o \in TotalOutcomes(branch) :
           call' = [call EXCEPT
                      !._models = @ \cup TModels(branch),
                      !._tlemmas = @ \o o.lemmas,
                      !.branches = Append(@, [m |-> m, lemmas |-> o.lemmas])]
    /\ pc' = "enumerated"
    /\ UNCHANGED <<tdd, nconds, folder, saved, prev, adiag, afolder, asaved, last>>

\* the end of one pass: pop
ExtendedPop ==
    /\ pc = "enumerated"
    /\ pc' = "branch"
    /\ call' = [call EXCEPT !.stack = pop(call.stack), !.k = @ + 1]
    /\ UNCHANGED <<tdd, nconds, folder, saved, prev, adiag, afolder, asaved, last>>

\* after the last partial assignment
ExtendedReturn ==
    /\ pc = "branch"
    /\ call.k > Len(call.partial_models)
    /\ pc' = "returned"
    /\ last' = [op |-> "check_all_sat", exc |-> "none", val |-> {SAT}]
    /\ UNCHANGED <<tdd, call, nconds, folder, saved, prev, adiag, afolder, asaved>>

NextExtended ==
    \/ ExtendedPartialPass
    \/ ExtendedPush
    \/ ExtendedTotalPass
    \/ ExtendedPop
    \/ ExtendedReturn

SpecExtended == InitExtended /\ [][NextExtended]_vars

\* ------------------------------------------ _build with supplied lemmas
\* TheoryBDD(phi, tlemmas=lemmas) / TheorySDD(phi, tlemmas=lemmas), and the
\* same call on the TheoryBDD of the older module theory_bdd.py, whose
\* object is kept in last.val
BuildWithLemmas ==
    /\ pc = "none"
    /\ \E cls \in Classes, phi \in PhiPool, lemmas \in LemmaLists, seed \in Seeds :
        LET r == tdd_init(cls, phi,
                          [mode |-> "tlemmas", tlemmas |-> lemmas, file |-> save_phi(top),
                           outcome |-> [sat |-> SAT, lemmas |-> lemmas], sat_result |-> None],
                          seed)
        IN /\ pc' = IF r.exc = "none" THEN "built" ELSE "raised"
           /\ tdd' = IF r.exc = "none" THEN r.val ELSE NoObject
           /\ call' = [mode |-> "build", cls |-> cls, phi |-> phi, lemmas |-> lemmas,
                       seed |-> seed]
           /\ last' = [op |-> "build", exc |-> r.exc,
                       val |-> Legacy_TheoryBDD_init(phi, lemmas, seed)]
    /\ UNCHANGED <<nconds, folder, saved, prev, adiag, afolder, asaved>>

NextBuild == BuildWithLemmas

SpecBuild == Init /\ [][NextBuild]_vars

\* ------------------------------------ ddnnf: the DIMACS file of a formula
\* a DIMACS file is its lines, each line its tokens: the header
\* p cnf <variables> <clauses>, then one clause per line, closed by 0

\* DDNNFCompiler.write_dimacs_true: "p cnf 1 1\n1 -1 0\n"
write_dimacs_true == <<<<"p", "cnf", 1, 1>>, <<1, 0 - 1, 0>>>>

\* DDNNFCompiler.write_dimacs_false: "p cnf 1 1\n1 -1 0\n"
write_dimacs_false == <<<<"p", "cnf", 1, 1>>, <<1, 0 - 1, 0>>>>

\* DDNNFCompiler.write_dimacs: the header and the clauses of phi_cnf over
\* the ids of the abstraction; phi_cnf is taken as the clauses that exclude
\* the assignments falsifying the formula (the label variables of the
\* CNF-ization are left out)
write_dimacs(atoms, phi_cnf) ==
    LET falsifying == ListCubes((SUBSET phi_cnf.atoms) \ phi_cnf.models)
        clause(m) == [i \in DOMAIN atoms |-> IF atoms[i] \in m THEN 0 - i ELSE i] \o <<0>>
    IN <<<<"p", "cnf", Len(atoms), Len(falsifying)>>>>
       \o [k \in DOMAIN falsifying |-> clause(falsifying[k])]

\* phi_cnf.is_true() / phi_cnf.is_false(): the formula is the constant
is_true(f) == f = top
is_false(f) == f = bottom

DDNNFCompilers == {"c2d", "d4"}

\* C2DCompiler / D4Compiler.from_smtlib_to_dimacs_file: the file written
\* and the method that wrote it
from_smtlib_to_dimacs_file(compiler, phi, tlemmas, sat_result) ==
    LET phi_and_lemmas == get_normalized(IF tlemmas = None THEN phi
                                         ELSE get_phi_and_lemmas(phi, CHOOSE l \in tlemmas : TRUE))
        phi_cnf == phi_and_lemmas
        phi_cnf_atoms == get_atoms(phi_cnf, "asc")
    IN IF is_true(phi_cnf)
       THEN [writer |-> "write_dimacs_true", dimacs |-> write_dimacs_true]
       ELSE IF is_false(phi_cnf) \/ sat_result = {UNSAT}
       THEN [writer |-> "write_dimacs_false", dimacs |-> write_dimacs_false]
       ELSE [writer |-> "write_dimacs", dimacs |-> write_dimacs(phi_cnf_atoms, phi_cnf)]

FromSmtlibToDimacsFile ==
    /\ pc = "none"
    /\ \E compiler \in DDNNFCompilers, phi \in PhiPool \cup {top, bottom},
          tlemmas \in {None} \cup {{l} : l \in LemmaLists},
          sat_result \in {None, {SAT}, {UNSAT}} :
        /\ call' = [mode |-> "dimacs", compiler |-> compiler, phi |-> phi,
                    tlemmas |-> tlemmas, sat_result |-> sat_result]
        /\ last' = [op |-> "from_smtlib_to_dimacs_file", exc |-> "none",
                    val |-> from_smtlib_to_dimacs_file(compiler, phi, tlemmas, sat_result)]
    /\ pc' = "written"
    /\ UNCHANGED <<tdd, nconds, folder, saved, prev, adiag, afolder, asaved>>

NextDimacs == FromSmtlibToDimacsFile

SpecDimacs == Init /\ [][NextDimacs]_vars

\* ------------------------------ a DisjointSet under union and find
MaxItems == 4
MaxOps == 4

ItemNames == <<"x", "y", "z", "w", "u", "v">>

\* the _find of get_sets on every node from i on, with its flattening
RECURSIVE FlattenedFrom(_, _)
FlattenedFrom(ds, i) ==
    IF i > Len(ds.data) THEN ds ELSE FlattenedFrom(Flattened(ds, i), i + 1)

\* DisjointSet(data) on distinct items
InitDisjoint ==
    /\ pc = "disjoint"
    /\ call \in {[mode |-> "disjoint", ds |-> DisjointSet([i \in 1..n |-> ItemNames[i]]),
                   before |-> DisjointSet([i \in 1..n |-> ItemNames[i]]),
                   unions |-> {}] : n \in 2..MaxItems}
    /\ tdd = NoObject
    /\ nconds = 0
    /\ folder = NoFolder
    /\ saved = NoCounts
    /\ prev = NoCounts
    /\ adiag = NoObject
    /\ afolder = NoFolder
    /\ asaved = NoCounts
    /\ last = NoResult

\* ds.union(data1, data2)
UnionItems ==
    /\ pc = "disjoint"
    /\ nconds < MaxOps
    /\ \E data1, data2 \in Range(call.ds.data) :
        call' = [call EXCEPT !.ds = union(call.ds, data1, data2),
                             !.before = call.ds,
                             !.unions = @ \cup {{data1, data2}}]
    /\ nconds' = nconds + 1
    /\ last' = [op |-> "union", exc |-> "none", val |-> {}]
    /\ UNCHANGED <<pc, tdd, folder, saved, prev, adiag, afolder, asaved>>

\* ds.find(data): the representative, with the path to it flattened
FindItem ==
    /\ pc = "disjoint"
    /\ nconds < MaxOps
    /\ \E data \in Range(call.ds.data) :
        /\ call' = [call EXCEPT !.ds = Flattened(call.ds, Reference(call.ds, data)),
                                !.before = call.ds]
        /\ last' = [op |-> "find", exc |-> "none", val |-> find(call.ds, data)]
    /\ nconds' = nconds + 1
    /\ UNCHANGED <<pc, tdd, folder, saved, prev, adiag, afolder, asaved>>

\* ds.get_sets()
GetSets ==
    /\ pc = "disjoint"
    /\ nconds < MaxOps
    /\ call' = [call EXCEPT !.ds = FlattenedFrom(call.ds, 1), !.before = call.ds]
    /\ last' = [op |-> "get_sets", exc |-> "none", val |-> get_sets(call.ds)]
    /\ nconds' = nconds + 1
    /\ UNCHANGED <<pc, tdd, folder, saved, prev, adiag, afolder, asaved>>

NextDisjoint == UnionItems \/ FindItem \/ GetSets

SpecDisjoint == InitDisjoint /\ [][NextDisjoint]_vars

\* ------------------------------ a sequence of condition calls
MaxCondCalls == 3

\* the literals of the care atoms: the labels _get_care_vars lists
CareLabels(d) == {lit \in Labels(d) : lit.label \in _get_care_vars(d)}

\* d.condition(label) with a literal of a care atom; the diagram before the
\* first call and the literals of the calls are kept
ConditionCare ==
    /\ HasTdd
    /\ nconds < MaxCondCalls
    /\ \E lit \in CareLabels(tdd) :
        /\ tdd' = tdd_condition(tdd, lit)
        /\ call' = IF call.mode = "conditioning"
                   THEN [call EXCEPT !.lits = Append(@, lit)]
                   ELSE [mode |-> "conditioning", original |-> tdd, lits |-> <<lit>>]
    /\ nconds' = nconds + 1
    /\ last' = [op |-> "condition", exc |-> "none", val |-> {}]
    /\ UNCHANGED <<pc, folder, saved, prev, adiag, afolder, asaved>>

NextCond == ConstructForLife \/ ConditionCare

SpecCond == Init /\ [][NextCond]_vars

\* ---------------------------- one enumerator instance, call after call
MaxCalls == 2

\* MathSATTotalEnumerator() / MathSATExtendedPartialEnumerator()
NewEnumerator(kind) ==
    [kind |-> kind, _last_phi |-> None, _tlemmas |-> <<>>, _models |-> {},
     stack |-> reset_assertions]

\* an assertion of phi on top of what the solver already holds
assert_phi_kept(stack, phi) == add_assertion(stack, phi)

\* self.solver.reset_assertions(); self.solver.add_assertion(phi)
assert_phi(stack, phi) == add_assertion(reset_assertions, phi)

\* what the solver enumerates on: the conjunction of its assertions
Asserted(stack) == big_and(stack[1])

\* check_all_sat(phi) on the instance: the fields are emptied, the solver
\* is reset and given phi, and o is what the enumeration over the
\* assertions found
check_all_sat_on(inst, phi, o) ==
    [inst EXCEPT !._last_phi = {phi},
                 !._tlemmas = o.lemmas,
                 !._models = TModels(Asserted(assert_phi(inst.stack, phi))),
                 !.stack = assert_phi(inst.stack, phi)]

InitInstance ==
    /\ pc = "instance"
    /\ call \in {[mode |-> "instance", inst |-> NewEnumerator(kind), ncalls |-> 0,
                   before |-> NewEnumerator(kind)] : kind \in {"total", "extended_partial"}}
    /\ tdd = NoObject
    /\ nconds = 0
    /\ folder = NoFolder
    /\ saved = NoCounts
    /\ prev = NoCounts
    /\ adiag = NoObject
    /\ afolder = NoFolder
    /\ asaved = NoCounts
    /\ last = NoResult

\* solver.check_all_sat(phi) on the instance of the run
CheckAllSatAgain ==
    /\ pc = "instance"
    /\ call.ncalls < MaxCalls
    /\ \E phi_in \in PhiPool :
        LET phi == get_normalized(phi_in)
        IN \E o \in check_all_sat(call.inst.kind, Asserted(assert_phi(call.inst.stack, phi))) :
            LET inst == check_all_sat_on(call.inst, phi, o)
            IN /\ call' = [call EXCEPT !.inst = inst, !.ncalls = @ + 1, !.before = call.inst]
               /\ last' = [op |-> "check_all_sat", exc |-> "none",
                           val |-> {Cardinality(inst._models) # 0}]
    /\ UNCHANGED <<pc, tdd, nconds, folder, saved, prev, adiag, afolder, asaved>>

NextInstance == CheckAllSatAgain

SpecInstance == InitInstance /\ [][NextInstance]_vars

\* ============================================================ properties
\* the normalized phi of the constructor call
PhiOfCall == get_normalized(call.phi)

\* the total truth assignments to all the atoms that the theory allows
TAssignments == {m \in SUBSET NormAtoms : TConsistent(m, NormAtoms)}

\* the assignment mu agrees with the literals of a returned model
Agrees(model, mu) == \A a \in DOMAIN model : model[a] = (a \in mu)

\* mu satisfies the phi of the call
PhiHolds(mu) == (mu \cap PhiOfCall.atoms) \in PhiOfCall.models

\* the diagram was just constructed from lemmas that rule out all the
\* theory-inconsistent total assignments: computed by the total enumerator,
\* or supplied from an extended-partial run
BuiltWithCompleteLemmas ==
    /\ pc = "built"
    /\ nconds = 0
    /\ \/ call.mode = "computed" /\ call.solver = "total"
       \/ call.mode = "tlemmas" /\ call.solver = "extended_partial"

\* C1: for a T-BDD built with lemmas that rule out all theory-inconsistent
\* total assignments, the disjunction of the models pick_all() returns is
\* equivalent to phi under the theory, and every returned model conjoined
\* with phi is theory-satisfiable.
C1_PickAllIsPhi ==
    (BuiltWithCompleteLemmas /\ tdd.cls = "TheoryBDD" /\ last.op = "pick_all") =>
        /\ \A mu \in TAssignments :
              PhiHolds(mu) <=> (\E model \in last.val : Agrees(model, mu))
        /\ \A model \in last.val :
              \E mu \in TAssignments : Agrees(model, mu) /\ PhiHolds(mu)

\* a T-BDD of a phi with theory-inconsistent Boolean models answered pick_all
C1_Witness ==
    /\ BuiltWithCompleteLemmas
    /\ tdd.cls = "TheoryBDD"
    /\ last.op = "pick_all"
    /\ last.val # {}
    /\ TModels(PhiOfCall) # PhiOfCall.models

\* C2: for a theory-unsatisfiable phi the constructed T-BDD and T-SDD are the
\* single False terminal: count_nodes() is 1 and count_models() is 0.
C2_UnsatIsFalseTerminal ==
    (pc = "built" /\ nconds = 0 /\ TModels(PhiOfCall) = {}) =>
        /\ last.op = "count_nodes" => last.val = 1
        /\ last.op = "count_models" => (last.exc = "none" /\ last.val = <<0, 1>>)
        /\ tdd.root = NodeFalse

\* the diagram of a phi that is satisfiable as a Boolean formula and
\* unsatisfiable in the theory was counted
C2_Witness ==
    /\ pc = "built"
    /\ TModels(PhiOfCall) = {}
    /\ PhiOfCall.models # {}
    /\ last.op = "count_models"
    /\ last.val = <<0, 1>>

\* C3: right after construction count_models() of a T-BDD or T-SDD is the
\* number of theory-consistent total assignments to the atoms of phi that
\* satisfy phi, whatever fresh atoms the lemmas bring.
C3_CountIsTModels ==
    (call.mode \in {"computed", "tlemmas"} /\ pc # "loaded" /\ nconds = 0) =>
        /\ pc = "built"
        /\ tdd_count_models(tdd) =
              [exc |-> "none", num |-> Cardinality(TModels(PhiOfCall)), den |-> 1]

\* a >= b for two counts that were returned
CountGeq(a, b) == a.exc = "none" /\ b.exc = "none" /\ a.num * b.den >= b.num * a.den

\* C4: count_models() of the abstraction diagram of phi is at least
\* count_models() of the theory diagram of phi of the same kind.
C4_AbstractionIsUpperBound ==
    (\/ last.op = "AbstractionBDD" /\ tdd.cls = "TheoryBDD"
     \/ last.op = "AbstractionSDD" /\ tdd.cls = "TheorySDD") =>
        /\ adiag.cls # "none"
        /\ CountGeq(abstraction_count_models(adiag), tdd_count_models(tdd))

\* C6: the abstraction diagram loaded from the folder an abstraction diagram
\* saved has the same number of nodes and the same count_models().
C6_AbstractionLoadKeepsCounts ==
    (last.op = "abstraction_load_from_folder" /\ asaved.known) =>
        /\ abstraction_len(adiag).val = asaved.nodes
        /\ abstraction_count_models(adiag) = asaved.models

\* C9: a T-diagram built by computing the lemmas and a T-diagram of the same
\* phi built with load_lemmas on the file of those lemmas report the same
\* count_models().
C9_LemmaFileSameCount ==
    (call.mode = "load_lemmas" /\ nconds = 0 /\ pc # "loaded") =>
        /\ pc = "built"
        /\ tdd_count_models(tdd) = prev.models

\* C5: the T-diagram loaded from the folder a T-BDD or T-SDD saved has the
\* same count_nodes() and the same count_models() as the diagram that saved.
C5_LoadKeepsCounts ==
    (last.op = "load_from_folder" /\ saved.known) =>
        /\ tdd_len(tdd) = saved.nodes
        /\ tdd_count_models(tdd) = saved.models

\* a satisfiable diagram with a fresh atom was saved and loaded back
C5_Witness ==
    /\ last.op = "load_from_folder"
    /\ saved.known
    /\ Len(tdd.qvars) > 0
    /\ saved.models.num > 0
    /\ saved.nodes > 1

\* the atoms that are keys of a returned model
ModelKeys(model) == DOMAIN model

\* C7: in every state reached by construction, load and condition calls no
\* atom of qvars is a key of the model pick() returns or of a model
\* pick_all() / pick_all_iter() returns.
C7_NoQvarInModels ==
    /\ last.op = "pick" =>
          \A model \in last.val : ModelKeys(model) \cap Range(tdd.qvars) = {}
    /\ last.op \in {"pick_all", "pick_all_iter"} =>
          \A model \in last.val : ModelKeys(model) \cap Range(tdd.qvars) = {}

\* the ids the generator of a class hands out first
FirstIds(cls, n) == IF cls = "TheoryBDD" THEN {next_string(i) : i \in 0..(n - 1)} ELSE 1..n

\* the atoms of phi and of the lemmas of the constructor call
AtomsOfCall == PhiOfCall.atoms \cup UNION {call.lemmas[i].atoms : i \in DOMAIN call.lemmas}

\* abstraction is one-to-one onto the first ids and refinement is its inverse
MappingsAreInverse(d) ==
    /\ \A i, j \in DOMAIN d.abstraction :
          (d.abstraction[i][1] = d.abstraction[j][1] \/ d.abstraction[i][2] = d.abstraction[j][2])
              => i = j
    /\ DictValues(d.abstraction) = FirstIds(d.cls, Len(d.abstraction))
    /\ DictKeys(d.refinement) = DictValues(d.abstraction)
    /\ Len(d.refinement) = Len(d.abstraction)
    /\ \A a \in DictKeys(d.abstraction) :
          DictGet(d.refinement, DictGet(d.abstraction, a)) = a

\* the mappings of the diagram are a bijection and its inverse, over the
\* atoms of the call
MappingsOfDiagram ==
    HasTdd =>
        /\ MappingsAreInverse(tdd)
        /\ pc = "built" => DictKeys(tdd.abstraction) = AtomsOfCall

\* a step on one diagram (condition, counting, picking, saving) leaves
\* abstraction and refinement as they are
MappingsFrozen ==
    (HasTdd /\ pc' = pc) =>
        /\ tdd'.abstraction = tdd.abstraction
        /\ tdd'.refinement = tdd.refinement

\* C10: in every T-diagram the abstraction gives every atom of phi and of
\* the lemmas exactly one id, distinct atoms get distinct ids, the ids are
\* the first N outputs of the generator (T-SDD: 1..N), refinement is the
\* inverse of abstraction, and neither mapping changes after construction or
\* load (condition, counting, picking and saving leave them alone).
C10_Mappings == []MappingsOfDiagram /\ [][MappingsFrozen]_vars

\* a diagram over two atoms was conditioned
C10_Witness ==
    /\ HasTdd
    /\ nconds > 0
    /\ Len(tdd.abstraction) = 2
    /\ last.op = "condition"

\* two atoms have a free variable in common
ShareVar(a, b) == Range(a.vars) \cap Range(b.vars) # {}

\* the atoms linked to those of S by chains of atoms with shared variables
RECURSIVE Linked(_, _)
Linked(S, all) ==
    LET T == S \cup {b \in all : \E a \in S : ShareVar(a, b)}
    IN IF T = S THEN S ELSE Linked(T, all)

\* phi is normalized: no atom is left without a free variable
NormalizedInput == \A i \in DOMAIN call.atoms : Len(call.atoms[i].vars) > 0

\* C8: for a normalized phi the sets get_atom_partitioning returns are
\* pairwise disjoint, their union is atoms(phi), and two atoms that share a
\* free variable, directly or through a chain of atoms, are in the same set.
C8_PartitionOfAtoms ==
    (last.op = "get_atom_partitioning" /\ NormalizedInput) =>
        /\ last.exc = "none"
        /\ \A i, j \in DOMAIN last.val : i # j => last.val[i] \cap last.val[j] = {}
        /\ UNION Range(last.val) = Range(call.atoms)
        /\ \A a \in Range(call.atoms) : \A b \in Linked({a}, Range(call.atoms)) :
              \E i \in DOMAIN last.val : {a, b} \subseteq last.val[i]

\* three atoms, the first and the last linked only through the second, and
\* one set returned
C8_Witness ==
    /\ last.op = "get_atom_partitioning"
    /\ NormalizedInput
    /\ Len(call.atoms) = 3
    /\ ~ShareVar(call.atoms[1], call.atoms[3])
    /\ ShareVar(call.atoms[1], call.atoms[2])
    /\ ShareVar(call.atoms[2], call.atoms[3])
    /\ Len(last.val) = 1

RECURSIVE Pow26(_)
Pow26(k) == IF k = 0 THEN 1 ELSE 26 * Pow26(k - 1)

\* the number of strings of letters shorter than len (none is empty)
RECURSIVE ShorterThan(_)
ShorterThan(len) == IF len <= 1 THEN 0 ELSE ShorterThan(len - 1) + Pow26(len - 1)

\* the length of the n-th string (n = 0, 1, ...) when shorter strings come first
RECURSIVE LengthOfNth(_, _)
LengthOfNth(n, len) == IF n < ShorterThan(len + 1) THEN len ELSE LengthOfNth(n, len + 1)

\* the m-th string of length len in alphabetical order
RECURSIVE Alphabetical(_, _)
Alphabetical(m, len) ==
    IF len = 0 THEN ""
    ELSE Letters[(m \div Pow26(len - 1)) + 1] \o Alphabetical(m % Pow26(len - 1), len - 1)

\* the n-th string of a, b, ..., z, aa, ab, ..., az, ba, ...
NthString(n) ==
    LET len == LengthOfNth(n, 1) IN Alphabetical(n - ShorterThan(len), len)

\* C11: the n-th call (n = 0, 1, ...) on a new or reset SequentialStringGenerator
\* returns the n-th string of a, b, ..., z, aa, ab, ... (shorter first, then
\* alphabetical), and no earlier call since then returned the same string.
C11_SequenceOfStrings ==
    (pc = "generator" /\ last.op = "next_string") =>
        LET n == Len(call.returned)
        IN /\ n = call._string_serial
           /\ last.val = call.returned[n]
           /\ last.val = NthString(n - 1)
           /\ \A i \in 1..(n - 1) : call.returned[i] # last.val

\* a reset generator returned a string of three letters
C11_Witness ==
    /\ pc = "generator"
    /\ last.op = "next_string"
    /\ call.resets = 1
    /\ call._string_serial > 703
    /\ last.val = NthString(call._string_serial - 1)

\* the atoms of a list, each once
NoRepeat(l) == \A i, j \in DOMAIN l : l[i] = l[j] => i = j

\* the list is qvars, then the atoms of middle, then the atoms of the
\* diagram that are in neither
QvarsMiddleRest(d, middle) ==
    /\ NoRepeat(d.ordering)
    /\ Range(d.ordering) = DictKeys(d.abstraction)
    /\ SubSeq(d.ordering, 1, Len(d.qvars)) = d.qvars
    /\ Len(d.ordering) >= Len(d.qvars) + Len(middle)
    /\ SubSeq(d.ordering, Len(d.qvars) + 1, Len(d.qvars) + Len(middle)) = middle
    /\ d.bdd = [i \in DOMAIN d.ordering |-> DictGet(d.abstraction, d.ordering[i])]

\* the atoms of the mapping that are not qvars, in mapping order
MappingOrderRest(d) ==
    LET keys == [i \in DOMAIN d.abstraction |-> d.abstraction[i][1]]
    IN SelectSeq(keys, LAMBDA a : a \notin Range(d.qvars))

\* no lemma of the call brings an atom that phi does not have
NoFreshAtoms == \A i \in DOMAIN call.lemmas : call.lemmas[i].atoms \subseteq PhiOfCall.atoms

\* C12: the ordering a T-BDD declares holds every atom of phi and the lemmas
\* exactly once: by default the qvars and then the other atoms in mapping
\* order; with a supplied list of atoms of phi the qvars, the supplied atoms in
\* the supplied order, then the atoms not yet placed.
C12_OrderingComplete ==
    (call.mode = "ordering" /\ NoFreshAtoms) =>
        /\ pc = "built"
        /\ IF call.use_ordering = None
           THEN QvarsMiddleRest(tdd, MappingOrderRest(tdd))
           ELSE \A supplied \in call.use_ordering :
                   QvarsMiddleRest(tdd, [i \in DOMAIN supplied |-> get_normalized_atom(supplied[i])])

\* the calls that only read a T-diagram
FrameOps ==
    {"count_nodes", "count_vertices", "count_models", "is_sat", "is_valid",
     "pick", "pick_all", "pick_all_iter", "save_to_folder"}

\* what one step does to a diagram that exists
FrameStep ==
    HasTdd =>
        /\ last'.op \in FrameOps => tdd' = tdd
        /\ last'.op = "condition" =>
              \E lit \in Labels(tdd) :
                  tdd' = [tdd EXCEPT !.root = {m \in tdd.root : (lit.label \in m) # lit.negated}]
        /\ (HasTdd' /\ tdd'.root # tdd.root) => last'.op \in {"condition", "load_from_folder"}

\* C13: after construction only condition changes root, to the old root
\* and the literal, and leaves every other field alone; the counting,
\* satisfiability, picking and saving calls leave root, abstraction,
\* refinement, qvars and ordering as they were.
C13_Frame == [][FrameStep]_vars

\* a conditioned diagram, neither terminal, was just enumerated
C13_Witness ==
    /\ HasTdd
    /\ nconds = 1
    /\ last.op = "pick_all"
    /\ is_sat(tdd)
    /\ ~is_valid(tdd)
    /\ Len(tdd.qvars) > 0

\* C14: when the engine's counting raises RuntimeError, count_models of a
\* T-BDD returns -1 and no exception, and the diagram is as it was.
C14_CountSentinel ==
    [][(HasTdd /\ tdd.cls = "TheoryBDD" /\ last'.op = "count_models"
        /\ last'.engine = "RuntimeError") =>
           (last'.exc = "none" /\ last'.val = <<0 - 1, 1>> /\ tdd' = tdd)]_vars

\* the engine ran out of memory while counting a satisfiable T-BDD
C14_Witness ==
    /\ HasTdd
    /\ tdd.cls = "TheoryBDD"
    /\ last.op = "count_models"
    /\ last.engine = "RuntimeError"
    /\ last.val = <<0 - 1, 1>>
    /\ is_sat(tdd)

\* C15: loading from a folder that is missing, or that misses one of the
\* files of the diagram, raises FileNotFoundError naming the missing path
\* before the engine manager is created or read and before any field is set.
C15_MissingPathRejectedFirst ==
    last.op = "load_from_damaged_folder" =>
        /\ last.exc = "FileNotFoundError"
        /\ last.val.named
        /\ ~last.val.manager
        /\ last.val.fields = {}

\* the exceptions a constructor rejects its arguments with
Rejections ==
    {"InvalidSolverException", "InvalidVTreeException", "InvalidLDDTheoryException",
     "UnsupportedNodeException"}

\* an argument of the call is one the constructor has to reject
BadArgument ==
    \/ call.cls = "LDD" /\ call.args.theory \notin VALID_LDD_THEORY
    \/ call.cls = "TheorySDD" /\ call.args.vtree_type \notin VALID_VTREE
    \/ call.cls # "LDD" /\ (call.args.solver \notin VALID_SOLVER \/ call.args.quantified)

C17_NoTempFolderLeft ==
    (last.op = "compile_dDNNF" /\ call.save_path = None) =>
        /\ \A d \in folder.dirs : ~d.name.tmp
        /\ last.exc = IF call.status # 0 THEN "TimeoutError" ELSE "none"

\* C18: when the tabular solver process exits non-zero or times out (124),
\* check_all_sat leaves neither lemma files nor temp_phi.smt behind, ends
\* with an exception of its own, and starts the process once only.
C18_TabularFailureCleansUp ==
    (last.op = "check_all_sat" /\ call.mode = "tabular" /\ call.status # 0) =>
        /\ folder.files = {}
        /\ last.exc # "none"
        /\ last.started = 1

\* enumerate_true has returned a verdict
EnumReturned == call.mode = "enumerate_true" /\ pc = "returned" /\ last.exc = "none"

\* C19: enumerate_true(phi) returns UNSAT exactly when phi has no
\* theory-consistent model and SAT otherwise, which is what
\* extract(phi, solver, enumerate_true=True) reports.
C19_EnumerateTrueVerdict ==
    (EnumReturned /\ call.solver \in Strategies) =>
        last.val = {TModels(get_normalized(call.phi)) # {}}

\* the sets the atoms of the normalized phi fall into: the atoms over x
\* together, every Boolean symbol alone
ExpectedPartitions ==
    LET atoms == get_normalized(call.phi).atoms
        theory == {a \in atoms : IsTheoryAtom(a)}
    IN (IF theory = {} THEN {} ELSE {theory}) \cup {{a} : a \in atoms \ theory}

\* the passes made so far took the partitions in order, one check_all_sat
\* each, on the formula every assignment of the partition satisfies
CheckedInOrder ==
    /\ Len(call.checked) = call.k - 1
    /\ Len(call.checked) <= Len(call.partitions)
    /\ \A i \in DOMAIN call.checked :
          call.checked[i].phi = [atoms |-> call.partitions[i],
                                 models |-> SUBSET call.partitions[i]]

\* C20: enumerate_true calls check_all_sat once per atom partition of the
\* normalized phi, on the conjunction of (atom | ~atom) over the partition;
\* it returns UNSAT iff a checked partition was UNSAT; with stop_at_unsat it
\* returns at the first UNSAT partition and checks no later one.
C20_OncePerPartition ==
    (call.mode = "enumerate_true" /\ pc \in {"loop", "returned"} /\ last.exc # "KeyError") =>
        /\ Range(call.partitions) = ExpectedPartitions
        /\ Len(call.partitions) = Cardinality(ExpectedPartitions)
        /\ CheckedInOrder
        /\ pc = "loop" =>
              (call.stop_at_unsat => \A i \in DOMAIN call.checked : call.checked[i].verdict = SAT)
        /\ pc = "returned" =>
              /\ last.val = {~(\E i \in DOMAIN call.checked : call.checked[i].verdict = UNSAT)}
              /\ IF call.stop_at_unsat /\ last.val = {UNSAT}
                 THEN /\ call.checked[Len(call.checked)].verdict = UNSAT
                      /\ \A i \in 1..(Len(call.checked) - 1) : call.checked[i].verdict = SAT
                 ELSE Len(call.checked) = Len(call.partitions)

\* with stop_at_unsat the first of two partitions was UNSAT and the second
\* one was never checked
C20_Witness ==
    /\ EnumReturned
    /\ call.stop_at_unsat
    /\ Len(call.partitions) = 2
    /\ Len(call.checked) = 1
    /\ last.val = {UNSAT}

\* the lemmas check_all_sat stored in the passes made by the call
DiscoveredLemmas == UNION {Range(call.checked[i].lemmas) : i \in DOMAIN call.checked}

\* C21: after enumerate_true returns, on the normal path and on the
\* stop_at_unsat early exit, get_theory_lemmas() is the union, without
\* duplicates, of the lemmas found in all the partitions the call checked.
C21_LemmasAreUnion ==
    EnumReturned =>
        /\ Range(call.tlemmas) = DiscoveredLemmas
        /\ NoRepeat(call.tlemmas)

\* C22: find_qvars(phi, phi & lemmas) returns, each once, exactly the atoms
\* of phi & lemmas that are not atoms of phi, the empty list when there is
\* none; the qvars of a constructed T-diagram are among those atoms and no
\* qvar is an atom of phi.
C22_QvarsAreFreshAtoms ==
    /\ last.op = "find_qvars" =>
          /\ NoRepeat(last.val)
          /\ Range(last.val) = AtomsOfCall \ PhiOfCall.atoms
          /\ AtomsOfCall = PhiOfCall.atoms => last.val = <<>>
    /\ pc = "built" =>
          /\ Range(tdd.qvars) \subseteq AtomsOfCall \ PhiOfCall.atoms
          /\ Range(tdd.qvars) \cap PhiOfCall.atoms = {}

\* a lemma brought the atom (x < 2) to a phi over (x > 1) and a Boolean atom
C22_Witness ==
    /\ last.op = "find_qvars"
    /\ call.phi.atoms = {Gt(1), B1}
    /\ last.val = <<Lt(2)>>

\* no atom of the input has a free variable
NoFreeVariables == \A i \in DOMAIN call.atoms : Len(call.atoms[i].vars) = 0

\* every atom of the input is a Boolean symbol: its only free variable is
\* itself, so no two atoms have the same one
OnlyBooleanAtoms ==
    /\ \A i \in DOMAIN call.atoms : Len(call.atoms[i].vars) = 1
    /\ \A i, j \in DOMAIN call.atoms : call.atoms[i].vars = call.atoms[j].vars => i = j

\* C23: get_atom_partitioning returns one set with all the atoms when the
\* formula has no free variable, and every atom as a singleton of its own
\* when the formula has Boolean atoms only.
C23_PartitioningEdgeCases ==
    last.op = "get_atom_partitioning" =>
        /\ NoFreeVariables => (last.exc = "none" /\ last.val = <<Range(call.atoms)>>)
        /\ OnlyBooleanAtoms =>
              /\ last.exc = "none"
              /\ Len(last.val) = Len(call.atoms)
              /\ Range(last.val) = {{call.atoms[i]} : i \in DOMAIN call.atoms}

\* a lemma source was given to the constructor call
LemmasGiven == call.tlemmas # None \/ call.load_lemmas # None

\* the lemmas of the source that comes first: tlemmas, then the file of
\* load_lemmas, then the All-SMT run
LemmasOfFirstSource ==
    IF call.tlemmas # None THEN CHOOSE l \in call.tlemmas : TRUE
    ELSE IF call.load_lemmas # None THEN <<read_phi(CHOOSE f \in call.load_lemmas : TRUE)>>
    ELSE call.outcome.lemmas

\* C24: the lemmas come from tlemmas, else from the load_lemmas file, else
\* from All-SMT; extract is invoked only when neither tlemmas nor load_lemmas
\* is given; the caller's sat_result is replaced by the enumerator's verdict
\* iff no lemmas are given, and otherwise the supplied sat_result (None
\* meaning SAT) selects between _build and _build_unsat.
C24_LemmaSources ==
    call.mode = "sources" =>
        /\ ("extract" \in Range(call.events)) <=> ~LemmasGiven
        /\ ("read_phi" \in Range(call.events)) <=> (call.tlemmas = None /\ call.load_lemmas # None)
        /\ Len(call.events) <= 1
        /\ call.used = Pad([i \in DOMAIN LemmasOfFirstSource |->
                               get_normalized(LemmasOfFirstSource[i])])
        /\ call.builder = IF (IF LemmasGiven THEN call.sat_result ELSE {call.outcome.sat}) = {UNSAT}
                          THEN "_build_unsat" ELSE "_build"
        /\ (pc = "built" /\ call.builder = "_build_unsat") => tdd.root = NodeFalse
        /\ (pc = "built" /\ call.builder = "_build") =>
              DictKeys(tdd.abstraction) =
                  PhiOfCall.atoms \cup UNION {call.used[i].atoms : i \in DOMAIN call.used}

\* an empty tlemmas list and a lemma file were both given, with the verdict
\* UNSAT, for a phi the enumerator finds satisfiable: the diagram is False
C24_Witness ==
    /\ call.mode = "sources"
    /\ pc = "built"
    /\ call.tlemmas = {<<>>}
    /\ call.load_lemmas \notin {None, {save_phi(top)}}
    /\ call.sat_result = {UNSAT}
    /\ call.outcome.sat = SAT
    /\ tdd.root = NodeFalse

\* the stack of solver_total between two passes of the loop: phi alone
BetweenBranches ==
    /\ call.stack = add_assertion(reset_assertions, get_normalized(call.phi))
    /\ call.stack = call.before

\* the stack inside a pass: the stack before it and one frame that starts
\* with the partial assignment of the pass
InsideBranch ==
    /\ Len(call.stack) = Len(call.before) + 1
    /\ SubSeq(call.stack, 1, Len(call.before)) = call.before
    /\ call.stack[Len(call.stack)][1] = CubeFormula(call.partial_models[call.k])

\* the passes made took the partial assignments in order, one each
BranchesInOrder ==
    /\ Len(call.branches) <= Len(call.partial_models)
    /\ \A i \in DOMAIN call.branches : call.branches[i].m = call.partial_models[i]

\* C25: the extended-partial check_all_sat returns UNSAT iff the partial
\* pass finds no assignment; otherwise every partial assignment is handled
\* by push, assert, total enumeration, pop, the stack of the total solver
\* after a pass is the stack before it, and the final lemma list holds every
\* lemma of the partial pass and of every total pass.
C25_ExtendedPartialBranches ==
    (call.mode = "extended" /\ pc # "idle") =>
        /\ BranchesInOrder
        /\ pc = "branch" => (BetweenBranches /\ Len(call.branches) = call.k - 1)
        /\ pc \in {"pushed", "enumerated"} => InsideBranch
        /\ pc = "returned" =>
              /\ last.val = {UNSAT} <=> call.partial_models = <<>>
              /\ last.val = {SAT} =>
                    /\ Len(call.branches) = Len(call.partial_models)
                    /\ call.stack = call.before
                    /\ Range(call.partial_lemmas) \subseteq Range(call._tlemmas)
                    /\ \A i \in DOMAIN call.branches :
                          Range(call.branches[i].lemmas) \subseteq Range(call._tlemmas)

\* two partial assignments were extended, the second total pass found a
\* lemma the partial pass had not
C25_Witness ==
    /\ call.mode = "extended"
    /\ pc = "returned"
    /\ last.val = {SAT}
    /\ Len(call.branches) = 2
    /\ call.partial_lemmas = <<>>
    /\ call.branches[2].lemmas # <<>>

\* the diagrams of phi and of the lemmas over the variables of the object d
\* built from phi and lemmas, and the ids of its qvars
PhiDD(d, phi) == walk(Declared(d), AsFunction(d.abstraction), get_normalized(phi))
LemmasDD(d, lemmas) ==
    walk(Declared(d), AsFunction(d.abstraction),
         big_and(Pad([i \in DOMAIN lemmas |-> get_normalized(lemmas[i])])))
MappedQvars(d) == {DictGet(d.abstraction, d.qvars[i]) : i \in DOMAIN d.qvars}

\* phi_dd & (exists qvars . lemmas_dd)
QuantifiedBefore(d, phi, lemmas) ==
    NodeAnd(PhiDD(d, phi), NodeExists(Declared(d), LemmasDD(d, lemmas), MappedQvars(d)))

\* exists qvars . (phi_dd & lemmas_dd)
QuantifiedAfter(d, phi, lemmas) ==
    NodeExists(Declared(d), NodeAnd(PhiDD(d, phi), LemmasDD(d, lemmas)), MappedQvars(d))

\* the root of every diagram built is phi_dd & (exists qvars . lemmas_dd)
RootIsQuantifiedBefore ==
    last.op = "build" =>
        /\ last.val.root = QuantifiedBefore(last.val, call.phi, call.lemmas)
        /\ pc = "built" => tdd.root = QuantifiedBefore(tdd, call.phi, call.lemmas)

\* C26: the root is phi_dd & (exists qvars . lemmas_dd), and there are phi,
\* lemmas and the qvars find_qvars computes for them such that quantifying
\* the qvars out of phi_dd & lemmas_dd gives another root.
C26_OrderMatters ==
    /\ RootIsQuantifiedBefore
    /\ \E phi \in PhiPool, lemmas \in LemmaLists, seed \in Seeds :
          LET d == Legacy_TheoryBDD_init(phi, lemmas, seed)
          IN d.root # QuantifiedAfter(d, phi, lemmas)

\* C26 (amended): the root is phi_dd & (exists qvars . lemmas_dd), and for
\* the qvars find_qvars computes, none of which is an atom of phi,
\* quantifying them out of phi_dd & lemmas_dd gives the same root.
C26_OrderIsImmaterial ==
    /\ RootIsQuantifiedBefore
    /\ last.op = "build" =>
          /\ last.val.root = QuantifiedAfter(last.val, call.phi, call.lemmas)
          /\ pc = "built" => tdd.root = QuantifiedAfter(tdd, call.phi, call.lemmas)

\* a lemma brought a fresh atom to a phi that is neither valid nor
\* unsatisfiable, and the older TheoryBDD quantified it
C26_Witness ==
    /\ last.op = "build"
    /\ Len(last.val.qvars) > 0
    /\ last.val.root # NodeFalse
    /\ last.val.root # NodeTrue(Declared(last.val))

\* the assignments to the variables 1..n of a DIMACS file that satisfy
\* every clause of it
DimacsModels(file) ==
    LET n == file[1][3]
        holds(m, line) ==
            \E i \in 1..(Len(line) - 1) :
                \/ line[i] > 0 /\ line[i] \in m
                \/ line[i] < 0 /\ (0 - line[i]) \notin m
    IN {m \in SUBSET (1..n) : \A k \in 2..Len(file) : holds(m, file[k])}

\* the normalized phi & lemmas of the call
PhiAndLemmasOfCall ==
    get_normalized(IF call.tlemmas = None THEN call.phi
                   ELSE get_phi_and_lemmas(call.phi, CHOOSE l \in call.tlemmas : TRUE))

\* C27: when the CNF of phi & lemmas is False or sat_result is UNSAT (and
\* the CNF is not True), the file from_smtlib_to_dimacs_file writes, that of
\* write_dimacs_false, is a DIMACS CNF without satisfying assignment and is
\* not the file write_dimacs_true writes.
C27_DimacsFalseIsUnsat ==
    (/\ last.op = "from_smtlib_to_dimacs_file"
     /\ PhiAndLemmasOfCall # top
     /\ (PhiAndLemmasOfCall = bottom \/ call.sat_result = {UNSAT})) =>
        /\ last.val.dimacs = write_dimacs_false
        /\ DimacsModels(last.val.dimacs) = {}
        /\ last.val.dimacs # write_dimacs_true

\* the verdict, get_models() and get_theory_lemmas() after the last call
Observed == [sat |-> last.val, models |-> call.inst._models, lemmas |-> call.inst._tlemmas]

\* what a new instance of the same class can show after check_all_sat(phi)
FreshObservations(kind, phi) ==
    {[sat |-> {o.sat}, models |-> TModels(phi), lemmas |-> o.lemmas] :
        o \in check_all_sat(kind, phi)}

\* C28: after check_all_sat(phi) on an instance that was used before, the
\* verdict, get_models() and get_theory_lemmas() are what a new instance
\* shows for phi: nothing collected by earlier calls is carried over.
C28_NoCarryOver ==
    (call.mode = "instance" /\ last.op = "check_all_sat") =>
        \A phi \in call.inst._last_phi :
            Observed \in FreshObservations(call.inst.kind, phi)

\* the first call left models and a lemma, the second call was on an
\* unsatisfiable phi over a Boolean atom
C28_Witness ==
    /\ call.mode = "instance"
    /\ call.ncalls = 2
    /\ call.before._tlemmas # <<>>
    /\ call.before._models # {}
    /\ call.inst._last_phi = {[atoms |-> {B1}, models |-> {}]}
    /\ last.val = {UNSAT}

\* the engine variable of the atom a literal names
LitVar(d, lit) == DictGet(d.abstraction, DictGet(d.refinement, lit.label))

\* the models of root that satisfy every literal of lits
ModelsSatisfying(d, root, lits) ==
    {m \in root : \A i \in DOMAIN lits : (LitVar(d, lits[i]) \in m) # lits[i].negated}

\* the calls of lits made on d one after the other
RECURSIVE ConditionAll(_, _)
ConditionAll(d, lits) ==
    IF lits = <<>> THEN d ELSE ConditionAll(tdd_condition(d, Head(lits)), Tail(lits))

Reversed(q) == [i \in 1..Len(q) |-> q[Len(q) + 1 - i]]

\* a label and its negation are both among the calls
Contradictory(lits) ==
    \E i, j \in DOMAIN lits : lits[i].label = lits[j].label /\ lits[i].negated # lits[j].negated

\* C29: after any sequence of condition calls with literals of care atoms
\* the models of the root are the models of the original root that satisfy
\* every literal; the calls in the opposite order give the same root, a
\* repeated call changes nothing, the models never grow, and a label with
\* its negation leaves is_sat() False, count_models() 0 and pick() None.
C29_ConditionIsRestriction ==
    (call.mode = "conditioning") =>
        /\ tdd.root = ModelsSatisfying(call.original, call.original.root, call.lits)
        /\ ConditionAll(call.original, Reversed(call.lits)).root = tdd.root
        /\ \A i \in DOMAIN call.lits : tdd_condition(tdd, call.lits[i]).root = tdd.root
        /\ tdd.root \subseteq call.original.root
        /\ Contradictory(call.lits) =>
            /\ ~is_sat(tdd)
            /\ tdd_count_models(tdd).exc = "none"
            /\ tdd_count_models(tdd).num = 0
            /\ tdd_pick(tdd) = {None}

\* three calls on a satisfiable diagram with two care atoms: a literal,
\* a literal of the other atom, and the negation of the first
C29_Witness ==
    /\ call.mode = "conditioning"
    /\ Len(call.lits) = 3
    /\ is_sat(call.original)
    /\ call.lits[1].label # call.lits[2].label
    /\ call.lits[3].label = call.lits[1].label
    /\ call.lits[3].negated # call.lits[1].negated
    /\ is_sat(ConditionAll(call.original, SubSeq(call.lits, 1, 2)))
    /\ ~is_sat(tdd)

\* the node reached from index after k parent steps
RECURSIVE Up(_, _, _)
Up(ds, index, k) == IF k = 0 THEN index ELSE Up(ds, ds.parent[index], k - 1)

\* every parent chain ends in a node that is its own parent
NoParentCycle(ds) ==
    \A i \in DOMAIN ds.data :
        ds.parent[Up(ds, i, Len(ds.data))] = Up(ds, i, Len(ds.data))

\* the items joined to the items of S by one of the unions
Joined(S, unions) == S \cup UNION {p \in unions : p \cap S # {}}

\* the class of an item in the equivalence closure of the unions
RECURSIVE ClosureClass(_, _)
ClosureClass(S, unions) ==
    IF Joined(S, unions) = S THEN S ELSE ClosureClass(Joined(S, unions), unions)

\* the sets get_sets() returns
SetsOf(ds) == {get_sets(ds)[i][2] : i \in DOMAIN get_sets(ds)}

\* the set of the items whose representative is root
SetOfRoot(ds, root) == {ds.data[i] : i \in {j \in DOMAIN ds.data : _find(ds, j) = root}}

\* C30: after any sequence of union and find calls on a DisjointSet of
\* distinct items, get_sets() is a partition of the items, two items have
\* the same representative exactly when the unions connect them, the parent
\* pointers have no cycle but the self-loop of a root, find and get_sets
\* leave the sets as they were, and the rank of a root is the size of its set.
C30_DisjointSetPartition ==
    (call.mode = "disjoint") =>
        LET ds == call.ds
            items == Range(ds.data)
        IN /\ NoParentCycle(ds)
           /\ Cardinality(SetsOf(ds)) = Len(get_sets(ds))
           /\ {} \notin SetsOf(ds)
           /\ \A S, T \in SetsOf(ds) : S # T => S \cap T = {}
           /\ UNION SetsOf(ds) = items
           /\ \A a, b \in items :
                (find(ds, a) = find(ds, b)) <=> (b \in ClosureClass({a}, call.unions))
           /\ last.op \in {"find", "get_sets"} => SetsOf(ds) = SetsOf(call.before)
           /\ last.op = "find" => last.val = find(ds, ds.data[last.val])
           /\ \A r \in DOMAIN ds.data :
                ds.parent[r] = r => ds.rank[r] = Cardinality(SetOfRoot(ds, r))

\* a find that flattened a path of two steps in a set of four items built
\* by three unions
C30_Witness ==
    /\ call.mode = "disjoint"
    /\ last.op = "find"
    /\ Cardinality(call.unions) = 3
    /\ call.ds.parent # call.before.parent
    /\ SetsOf(call.ds) = {Range(call.ds.data)}
    /\ Len(call.ds.data) = 4

=============================================================================
